---------------------------- MODULE Spec2Model ----------------------------
(***************************************************************************)
(* A model of the legion ECS core: the stage scheduler of src/src/system.rs *)
(* (StageExecutor) and the entity allocator and world of src/src/lib.rs.    *)
(*                                                                          *)
(* Sequences are 1-based here where the source's vectors are 0-based: the   *)
(* system the source calls i is i+1 here.                                   *)
(***************************************************************************)
EXTENDS Integers, Sequences, FiniteSets, TLC

(***************************************************************************)
(* Bounds of the model.                                                     *)
(***************************************************************************)
\* how many times execute is called on one StageExecutor
MaxExecutes == 2
\* how many archetypes the scheduler's world may grow to
MaxArchetypes == 2
\* BlockAllocator::BLOCK_SIZE, 1024 in the source, scaled down
BLOCK_SIZE == 2
\* how many blocks fit the index space of EntityIndex (u16): 2^16 / 1024 = 64 in
\* the source, scaled down
IndexBlocks == 2
\* the number of values of EntityVersion (Wrapping<u16>): 2^16 in the source,
\* scaled down
VersionSpace == 3
\* how many fresh blocks the BlockAllocator may create
MaxBlocks == 3
\* how many times delete_entity is called
MaxDeletes == 3
\* how many times an EntityAllocator is dropped
MaxDrops == 1
\* how many times delete_entity is called where allocators are dropped too
MaxDropDeletes == 2
\* the capacity of a chunk (chosen per archetype by the storage)
ChunkCapacity == 2
\* how many times World::insert is called, and with how many items at most
MaxInserts == 2
MaxItems == 2
\* how many times World::delete is called
MaxWorldDeletes == 2
\* how many calls are made on the Resources (get, get_mut, insert, remove, fetch)
MaxResourceOps == 4
\* how many calls of run panic in one execute
MaxPanics == 1

(***************************************************************************)
(* Small helpers on sequences and sets.                                     *)
(***************************************************************************)
Range(s) == {s[k] : k \in 1..Len(s)}

Last(s) == s[Len(s)]

Front(s) == SubSeq(s, 1, Len(s) - 1)

\* how many times x occurs in the sequence s
RECURSIVE Occurrences(_, _)
Occurrences(s, x) ==
    IF s = <<>> THEN 0
    ELSE (IF s[1] = x THEN 1 ELSE 0) + Occurrences(Tail(s), x)

\* Vec::swap_remove (1-based position k): the last element takes the place of
\* the removed one
SwapRemove(s, k) ==
    IF k = Len(s) THEN Front(s)
    ELSE [Front(s) EXCEPT ![k] = Last(s)]

(***************************************************************************)
(* The scheduler: StageExecutor over a slice of systems.                    *)
(*                                                                          *)
(* A system is its declared access (SystemAccess): the resource TypeIds it  *)
(* reads and writes and the component types it reads and writes, each a     *)
(* vector in declaration order, as SystemBuilder pushes them.               *)
(***************************************************************************)
VARIABLES
    systems,                  \* the stage: Seq of SystemAccess records
    query_matches,            \* per system: archetypes of the world its queries' filters match
    world_archetypes,         \* number of archetypes of the scheduler's world
    archetypes,               \* per system: System.archetypes, the cached BitSet
    static_dependants,        \* StageExecutor.static_dependants
    dynamic_dependants,       \* StageExecutor.dynamic_dependants
    static_dependancy_counts, \* StageExecutor.static_dependancy_counts
    awaiting,                 \* StageExecutor.awaiting
    dispatching,              \* TRUE while a call of execute is in progress
    scanned,                  \* items of the initial ready-scan whose filter has been evaluated
    running,                  \* per system: calls of run in progress
    started,                  \* per system: calls of run begun in this execute
    finished,                 \* per system: calls of run returned in this execute
    notifying,                \* per system j: fetch_sub(1) on awaiting[j] not yet done
    log,                      \* the order in which the systems' closures were invoked
    executions,               \* calls of execute begun so far
    command_buffer,           \* per system: System.command_buffer, the commands recorded in it
    panics                    \* calls of run that panicked in this execute

schedVars == <<systems, query_matches, world_archetypes, archetypes,
               static_dependants, dynamic_dependants, static_dependancy_counts,
               awaiting, dispatching, scanned, running, started, finished,
               notifying, log, executions, command_buffer, panics>>

VARIABLES
    block_allocator,   \* the shared BlockAllocator: [allocated, free]
    allocators,        \* the EntityAllocators sharing it: [blocks, entity_buffer]
    deletes,           \* calls of delete_entity so far
    last,              \* the last call made on an allocator, and what it returned
    issued,            \* per allocator: the entities create_entity has returned
    deleted,           \* per allocator: issued entities passed to delete_entity since
    drops,             \* EntityAllocators dropped so far
    panicked           \* TRUE once a call has panicked

allocVars == <<block_allocator, allocators, deletes, last, issued, deleted,
               drops, panicked>>

VARIABLES
    world,             \* the World: [archetypes, entities]; its allocator is allocators[1]
    inserts,           \* calls of World::insert so far
    world_last,        \* the last call made on the world, and what it returned
    expected           \* per entity returned by insert: the item it was inserted with

worldVars == <<world, inserts, world_last, expected>>

VARIABLES
    resources,         \* Resources::storage: per resource type, None or its AtomicRefCell
    guards,            \* per thread: the Read and Write guards it holds
    runs,              \* per system thread: where System::run is, and what it holds
    released,          \* per resource type: a guard of it was dropped since its insert
    res_last,          \* the last call made on the resources, and what it returned
    res_ops            \* calls made on the resources so far

resVars == <<resources, guards, runs, released, res_last, res_ops>>

SystemAccess(rr, rw, cr, cw) ==
    [resources  |-> [reads |-> rr, writes |-> rw],
     components |-> [reads |-> cr, writes |-> cw]]

\* Schedulable::reads of System
reads(system) ==
    [res |-> system.resources.reads, comp |-> system.components.reads]

\* what writes() is documented to return: the declared writes
writes_declared(system) ==
    [res |-> system.resources.writes, comp |-> system.components.writes]

\* Schedulable::writes of System: the source returns the two reads vectors
writes(system) ==
    [res |-> system.resources.reads, comp |-> system.components.reads]

NSys == Len(systems)

Sys == 1..NSys

(***************************************************************************)
(* StageExecutor::new: the static resource edges and the provisional        *)
(* component edges, system by system in the order given.                    *)
(***************************************************************************)
\* for res in write_res: depend on the last writer, then become the last writer
RECURSIVE WriteResLoop(_, _, _, _)
WriteResLoop(write_res, i, dependancies, resource_last_mutated) ==
    IF write_res = <<>>
    THEN [deps |-> dependancies, rlm |-> resource_last_mutated]
    ELSE LET res == Head(write_res)
             d   == IF res \in DOMAIN resource_last_mutated
                    THEN dependancies \cup {resource_last_mutated[res]}
                    ELSE dependancies
         IN  WriteResLoop(Tail(write_res), i, d, (res :> i) @@ resource_last_mutated)

\* for comp in write_comp: depend on every earlier writer, then join the writers
RECURSIVE WriteCompLoop(_, _, _, _)
WriteCompLoop(write_comp, i, comp_dependancies, component_mutated) ==
    IF write_comp = <<>>
    THEN [deps |-> comp_dependancies, cm |-> component_mutated]
    ELSE LET comp == Head(write_comp)
             ns   == IF comp \in DOMAIN component_mutated
                     THEN component_mutated[comp] ELSE <<>>
         IN  WriteCompLoop(Tail(write_comp), i, comp_dependancies \cup Range(ns),
                           (comp :> Append(ns, i)) @@ component_mutated)

\* for dep in dependancies { dependants[dep].push(i) }
PushDependant(dependants, deps, i) ==
    [d \in DOMAIN dependants |->
        IF d \in deps THEN Append(dependants[d], i) ELSE dependants[d]]

\* the loop over the systems; st carries the vectors and maps being built
RECURSIVE NewLoop(_, _, _)
NewLoop(syss, i, st) ==
    IF i > Len(syss) THEN st
    ELSE LET r      == reads(syss[i])
             w      == writes(syss[i])
             rdeps  == {st.rlm[res] : res \in Range(r.res) \cap DOMAIN st.rlm}
             wl     == WriteResLoop(w.res, i, rdeps, st.rlm)
             crdeps == UNION {Range(st.cm[c]) : c \in Range(r.comp) \cap DOMAIN st.cm}
             cl     == WriteCompLoop(w.comp, i, crdeps, st.cm)
         IN  NewLoop(syss, i + 1,
                     [sd     |-> PushDependant(st.sd, wl.deps, i),
                      dd     |-> PushDependant(st.dd, cl.deps, i),
                      counts |-> Append(st.counts, Cardinality(wl.deps)),
                      rlm    |-> wl.rlm,
                      cm     |-> cl.cm])

StageExecutorNew(syss) ==
    IF Len(syss) > 1
    THEN LET st == NewLoop(syss, 1,
                           [sd     |-> [k \in 1..Len(syss) |-> <<>>],
                            dd     |-> [k \in 1..Len(syss) |-> <<>>],
                            counts |-> <<>>,
                            rlm    |-> <<>>,
                            cm     |-> <<>>])
         IN  [static_dependants        |-> st.sd,
              dynamic_dependants       |-> st.dd,
              static_dependancy_counts |-> st.counts,
              awaiting                 |-> [k \in 1..Len(syss) |-> 0]]
    ELSE [static_dependants        |-> <<>>,
          dynamic_dependants       |-> <<>>,
          static_dependancy_counts |-> <<>>,
          awaiting                 |-> <<>>]

(***************************************************************************)
(* StageExecutor::execute, first part: prepare, then the promotion of       *)
(* provisional edges whose two systems' archetype sets intersect.           *)
(***************************************************************************)
\* System::prepare: filter_archetypes inserts the matching ids into the BitSet
Prepare(k) == archetypes[k] \cup query_matches[k]

\* a promotion that does not look at the archetype sets: every provisional
\* edge of system k is made real
PromoteLoop_always(k, i, arch, st) ==
    [sd     |-> st.sd \o [n \in 1..i |-> st.dd[i + 1 - n]],
     dd     |-> SubSeq(st.dd, i + 1, Len(st.dd)),
     counts |-> [d \in DOMAIN st.counts |->
                    st.counts[d] + Occurrences(SubSeq(st.dd, 1, i), d)]]

\* for i in (0..dyn_dep.len()).rev() of system k; st = its two lists and the counts
RECURSIVE PromoteLoop(_, _, _, _)
PromoteLoop(k, i, arch, st) ==
    IF i = 0 THEN st
    ELSE LET dep == st.dd[i]
         IN  IF arch[dep] \cap arch[k] # {}
             THEN PromoteLoop(k, i - 1, arch,
                              [sd     |-> Append(st.sd, dep),
                               dd     |-> SwapRemove(st.dd, i),
                               counts |-> [st.counts EXCEPT ![dep] = @ + 1]])
             ELSE PromoteLoop(k, i - 1, arch, st)

\* the for_each over all systems (each touches its own two lists; the counts are
\* atomic adds, so the order among systems does not change the result)
RECURSIVE PromoteAll(_, _, _)
PromoteAll(k, arch, g) ==
    IF k > Len(g.sd) THEN g
    ELSE LET st == PromoteLoop(k, Len(g.dd[k]), arch,
                               [sd |-> g.sd[k], dd |-> g.dd[k], counts |-> g.counts])
         IN  PromoteAll(k + 1, arch,
                        [sd     |-> [g.sd EXCEPT ![k] = st.sd],
                         dd     |-> [g.dd EXCEPT ![k] = st.dd],
                         counts |-> st.counts])

Zeroes == [k \in Sys |-> 0]

\* a call of systems[i].run begins: the closure is invoked
StartRun(i, run, st, lg) ==
    /\ running' = [run EXCEPT ![i] = @ + 1]
    /\ started' = [st EXCEPT ![i] = @ + 1]
    /\ log' = Append(lg, i)

\* execute is called; a stage of one system runs it directly, a stage of several
\* prepares, promotes, initialises awaiting and begins the ready-scan
ExecuteBegin ==
    /\ ~dispatching
    /\ executions < MaxExecutes
    /\ executions' = executions + 1
    /\ finished' = Zeroes
    /\ notifying' = Zeroes
    /\ panics' = 0
    /\ UNCHANGED <<systems, query_matches, world_archetypes, command_buffer>>
    /\ IF NSys = 0
       THEN /\ UNCHANGED <<archetypes, static_dependants, dynamic_dependants,
                           static_dependancy_counts, awaiting, dispatching>>
            /\ scanned' = {}
            /\ running' = Zeroes
            /\ started' = Zeroes
            /\ log' = <<>>
       ELSE IF NSys = 1
       THEN /\ UNCHANGED <<archetypes, static_dependants, dynamic_dependants,
                           static_dependancy_counts, awaiting>>
            /\ dispatching' = TRUE
            /\ scanned' = {1}
            /\ StartRun(1, Zeroes, Zeroes, <<>>)
       ELSE LET arch == [k \in Sys |-> Prepare(k)]
                g    == PromoteAll(1, arch,
                                   [sd     |-> static_dependants,
                                    dd     |-> dynamic_dependants,
                                    counts |-> static_dependancy_counts])
            IN  /\ archetypes' = arch
                /\ static_dependants' = g.sd
                /\ dynamic_dependants' = g.dd
                /\ static_dependancy_counts' = g.counts
                /\ awaiting' = g.counts
                /\ dispatching' = TRUE
                /\ scanned' = {}
                /\ running' = Zeroes
                /\ started' = Zeroes
                /\ log' = <<>>

\* one item of the initial ready-scan: the filter loads awaiting[i], and the
\* for_each calls run_recursive(i) when it read zero
ScanItem(i) ==
    /\ dispatching
    /\ NSys > 1
    /\ i \notin scanned
    /\ scanned' = scanned \cup {i}
    /\ IF awaiting[i] = 0
       THEN StartRun(i, running, started, log)
       ELSE UNCHANGED <<running, started, log>>
    /\ UNCHANGED <<systems, query_matches, world_archetypes, archetypes,
                   static_dependants, dynamic_dependants, static_dependancy_counts,
                   awaiting, dispatching, finished, notifying, executions,
                   command_buffer, panics>>

\* the command a system's closure records in the command buffer it is handed
RecordedCommand == "delete"

\* systems[i].run returns inside run_recursive: the closure has recorded its
\* command, and every entry of static_dependants[i] is now due one fetch_sub
FinishRun(i) ==
    /\ dispatching
    /\ running[i] > 0
    /\ running' = [running EXCEPT ![i] = @ - 1]
    /\ finished' = [finished EXCEPT ![i] = @ + 1]
    /\ notifying' = IF NSys > 1
                    THEN [j \in Sys |->
                            notifying[j] + Occurrences(static_dependants[i], j)]
                    ELSE notifying
    /\ command_buffer' = [command_buffer EXCEPT ![i] = Append(@, RecordedCommand)]
    /\ UNCHANGED <<systems, query_matches, world_archetypes, archetypes,
                   static_dependants, dynamic_dependants, static_dependancy_counts,
                   awaiting, dispatching, scanned, started, log, executions,
                   panics>>

\* systems[i].run panics inside run_recursive: the unwinding leaves
\* run_recursive before its dependants are notified.  The pool keeps running
\* the other items of its parallel iterators (each item is a task of its own
\* here) and execute resumes the panic once they are done.
PanicRun(i) ==
    /\ dispatching
    /\ running[i] > 0
    /\ panics < MaxPanics
    /\ panics' = panics + 1
    /\ running' = [running EXCEPT ![i] = @ - 1]
    /\ UNCHANGED <<systems, query_matches, world_archetypes, archetypes,
                   static_dependants, dynamic_dependants, static_dependancy_counts,
                   awaiting, dispatching, scanned, started, finished, notifying,
                   log, executions, command_buffer>>

\* AtomicUsize::fetch_sub(1): wraps below zero; a negative value v stands for
\* the usize 2^64 + v
FetchSub(v) == v - 1

\* the filter of run_recursive on the value fetch_sub returned
BecameReady(fetch) == (IF fetch >= 1 \/ fetch < 0 THEN fetch - 1 ELSE 0) = 0

\* one dependant j of a finished system is notified, and run when the filter passes
Notify(j) ==
    /\ dispatching
    /\ notifying[j] > 0
    /\ notifying' = [notifying EXCEPT ![j] = @ - 1]
    /\ awaiting' = [awaiting EXCEPT ![j] = FetchSub(@)]
    /\ IF BecameReady(awaiting[j])
       THEN StartRun(j, running, started, log)
       ELSE UNCHANGED <<running, started, log>>
    /\ UNCHANGED <<systems, query_matches, world_archetypes, archetypes,
                   static_dependants, dynamic_dependants, static_dependancy_counts,
                   dispatching, scanned, finished, executions, command_buffer,
                   panics>>

\* execute returns, or resumes the panic of a run: the scan is over and every
\* run_recursive has returned or unwound
ExecuteReturn ==
    /\ dispatching
    /\ scanned = Sys
    /\ \A i \in Sys : running[i] = 0 /\ notifying[i] = 0
    /\ dispatching' = FALSE
    /\ UNCHANGED <<systems, query_matches, world_archetypes, archetypes,
                   static_dependants, dynamic_dependants, static_dependancy_counts,
                   awaiting, scanned, running, started, finished, notifying, log,
                   executions, command_buffer, panics>>

\* between two calls of execute the world gains an archetype, which the queries
\* of some of the systems match
ArchetypeCreated(matching) ==
    /\ ~dispatching
    /\ world_archetypes < MaxArchetypes
    /\ executions < MaxExecutes
    /\ world_archetypes' = world_archetypes + 1
    /\ query_matches' = [k \in Sys |->
                           IF k \in matching
                           THEN query_matches[k] \cup {world_archetypes + 1}
                           ELSE query_matches[k]]
    /\ UNCHANGED <<systems, archetypes, static_dependants, dynamic_dependants,
                   static_dependancy_counts, awaiting, dispatching, scanned, running,
                   started, finished, notifying, log, executions, command_buffer,
                   panics>>

(***************************************************************************)
(* The stages the scheduler is run on: every stage of up to two systems     *)
(* over one resource type and one component type, and three longer stages.  *)
(***************************************************************************)
AccessVectors(types) == {<<>>} \cup {<<t>> : t \in types}

SmallSystems ==
    {SystemAccess(rr, rw, cr, cw) :
        rr \in AccessVectors({"R1"}), rw \in AccessVectors({"R1"}),
        cr \in AccessVectors({"P"}),  cw \in AccessVectors({"P"})}

ReadsOf(res) == SystemAccess(res, <<>>, <<>>, <<>>)

\* three systems reading one resource
ChainStage == <<ReadsOf(<<"R1">>), ReadsOf(<<"R1">>), ReadsOf(<<"R1">>)>>

\* four systems: the last one shares a resource with the second and another with
\* the third
JoinStage ==
    <<ReadsOf(<<"R1">>), ReadsOf(<<"R1", "R2">>), ReadsOf(<<"R3">>),
      ReadsOf(<<"R2", "R3">>)>>

\* three systems of which the last writes what the first two read
WriterLastStage ==
    <<SystemAccess(<<"R1">>, <<>>, <<"P">>, <<>>),
      SystemAccess(<<>>, <<>>, <<"P">>, <<>>),
      SystemAccess(<<>>, <<"R1">>, <<>>, <<"P">>)>>

\* the stage of the test builder_schedule_execute: both systems read TestResource,
\* the first queries Read<Pos> and Read<Vel>, the second Read<Vel>
BuilderStage ==
    <<SystemAccess(<<"TestResource">>, <<>>, <<"Pos", "Vel">>, <<>>),
      SystemAccess(<<"TestResource">>, <<>>, <<"Vel">>, <<>>)>>

\* a system built with two queries that read the same component (with_query
\* extends the access vector once per query), and a system with no access
TwoQueriesStage ==
    <<SystemAccess(<<>>, <<>>, <<"P", "P">>, <<>>),
      SystemAccess(<<>>, <<>>, <<>>, <<>>)>>

Stages ==
    {<<>>} \cup {<<a>> : a \in SmallSystems}
           \cup {<<a, b>> : a \in SmallSystems, b \in SmallSystems}
           \cup {ChainStage, JoinStage, WriterLastStage, BuilderStage,
                 TwoQueriesStage}

SchedInit ==
    /\ systems \in Stages
    /\ world_archetypes = 1
    /\ query_matches \in [1..Len(systems) -> SUBSET (1..1)]
    /\ archetypes = [k \in 1..Len(systems) |-> {}]
    /\ LET e == StageExecutorNew(systems)
       IN  /\ static_dependants = e.static_dependants
           /\ dynamic_dependants = e.dynamic_dependants
           /\ static_dependancy_counts = e.static_dependancy_counts
           /\ awaiting = e.awaiting
    /\ dispatching = FALSE
    /\ scanned = {}
    /\ running = [k \in 1..Len(systems) |-> 0]
    /\ started = [k \in 1..Len(systems) |-> 0]
    /\ finished = [k \in 1..Len(systems) |-> 0]
    /\ notifying = [k \in 1..Len(systems) |-> 0]
    /\ log = <<>>
    /\ executions = 0
    /\ command_buffer = [k \in 1..Len(systems) |-> <<>>]
    /\ panics = 0

(***************************************************************************)
(* The entity allocator of src/src/lib.rs: Entity, EntityBlock,             *)
(* BlockAllocator and EntityAllocator.                                      *)
(***************************************************************************)
Allocators == {1, 2}

\* the values of EntityIndex (u16) and of EntityVersion (Wrapping<u16>)
EntityIndexSpace == BLOCK_SIZE * IndexBlocks

EntityIndex == 0..(EntityIndexSpace - 1)

EntityVersion == 0..(VersionSpace - 1)

Entity_new(index, version) == [index |-> index, version |-> version]

Entity == {Entity_new(i, v) : i \in EntityIndex, v \in EntityVersion}

\* Option<T>
None == [some |-> FALSE]

Some(v) == [some |-> TRUE, val |-> v]

\* usize as EntityIndex: the cast keeps the low bits
AsEntityIndex(n) == n % EntityIndexSpace

\* Wrapping<u16> += Wrapping(1)
WrappingInc(v) == (v + 1) % VersionSpace

EntityBlock_new(start, len) ==
    [start |-> start, len |-> len, versions |-> <<>>, free |-> <<>>]

\* EntityBlock::index; called only with index >= start
EntityBlock_index(b, index) == index - b.start

\* EntityBlock::is_alive: None when the index is not an initialised slot of b
EntityBlock_is_alive(b, entity) ==
    IF entity.index >= b.start
    THEN LET i == EntityBlock_index(b, entity.index)
         IN  IF i < Len(b.versions)
             THEN Some(b.versions[i + 1] = entity.version)
             ELSE None
    ELSE None

\* EntityBlock::allocate: [block, ret] with ret an Option<Entity>
EntityBlock_allocate(b) ==
    IF b.free # <<>>
    THEN LET index == Last(b.free)
             i     == EntityBlock_index(b, index)
         IN  [block |-> [b EXCEPT !.free = Front(b.free)],
              ret   |-> Some(Entity_new(index, b.versions[i + 1]))]
    ELSE IF Len(b.versions) < b.len
    THEN LET index == AsEntityIndex(b.start + Len(b.versions))
         IN  [block |-> [b EXCEPT !.versions = Append(b.versions, 1)],
              ret   |-> Some(Entity_new(index, 1))]
    ELSE [block |-> b, ret |-> None]

\* EntityBlock::free: [block, ret] with ret an Option<bool>; the source bumps the
\* version and pushes the index whenever is_alive returned Some, also Some(false)
EntityBlock_free(b, entity) ==
    LET alive == EntityBlock_is_alive(b, entity)
    IN  IF alive.some
        THEN LET i == EntityBlock_index(b, entity.index)
             IN  [block |-> [b EXCEPT !.versions[i + 1] = WrappingInc(@),
                                      !.free = Append(@, entity.index)],
                  ret   |-> Some(alive.val)]
        ELSE [block |-> b, ret |-> None]

\* a lease that takes the block that has been on the free list longest
BlockAllocator_allocate_oldest(ba) ==
    IF ba.free # <<>>
    THEN [ba |-> [ba EXCEPT !.free = Tail(ba.free)], block |-> Head(ba.free)]
    ELSE [ba    |-> [ba EXCEPT !.allocated = @ + BLOCK_SIZE],
          block |-> EntityBlock_new(AsEntityIndex(ba.allocated), BLOCK_SIZE)]

\* BlockAllocator::allocate: [ba, block]
BlockAllocator_allocate(ba) ==
    IF ba.free # <<>>
    THEN [ba |-> [ba EXCEPT !.free = Front(ba.free)], block |-> Last(ba.free)]
    ELSE [ba    |-> [ba EXCEPT !.allocated = @ + BLOCK_SIZE],
          block |-> EntityBlock_new(AsEntityIndex(ba.allocated), BLOCK_SIZE)]

\* EntityAllocator::is_alive: the answer of the first block that has one
RECURSIVE FirstAlive(_, _, _)
FirstAlive(blocks, k, entity) ==
    IF k > Len(blocks) THEN FALSE
    ELSE LET r == EntityBlock_is_alive(blocks[k], entity)
         IN  IF r.some THEN r.val ELSE FirstAlive(blocks, k + 1, entity)

EntityAllocator_is_alive(a, entity) == FirstAlive(a.blocks, 1, entity)

\* a scan that starts at the oldest block: the lowest position up to k whose
\* allocate returns Some; 0 if none
FirstAllocating_oldest(blocks, k) ==
    LET giving == {m \in 1..k : EntityBlock_allocate(blocks[m]).ret.some}
    IN  IF giving = {} THEN 0
        ELSE CHOOSE m \in giving : \A n \in giving : m <= n

\* blocks.iter_mut().rev().filter_map(|b| b.allocate()).nth(0): the position of
\* the first block, from the last one down, whose allocate returns Some; 0 if none
RECURSIVE FirstAllocating(_, _)
FirstAllocating(blocks, k) ==
    IF k = 0 THEN 0
    ELSE IF EntityBlock_allocate(blocks[k]).ret.some THEN k
    ELSE FirstAllocating(blocks, k - 1)

\* EntityAllocator::create_entity: [a, ba, ret, panic]; block.allocate().unwrap()
\* panics when the leased block has no slot to give, the leased block being lost
EntityAllocator_create_entity(a, ba) ==
    LET k == FirstAllocating(a.blocks, Len(a.blocks))
    IN  IF k > 0
        THEN LET r == EntityBlock_allocate(a.blocks[k])
             IN  [a     |-> [a EXCEPT !.blocks[k] = r.block,
                                      !.entity_buffer = Append(@, r.ret.val)],
                  ba    |-> ba,
                  ret   |-> r.ret.val,
                  panic |-> FALSE]
        ELSE LET l == BlockAllocator_allocate(ba)
                 r == EntityBlock_allocate(l.block)
             IN  IF r.ret.some
                 THEN [a     |-> [a EXCEPT !.blocks = Append(@, r.block),
                                           !.entity_buffer = Append(@, r.ret.val)],
                       ba    |-> l.ba,
                       ret   |-> r.ret.val,
                       panic |-> FALSE]
                 ELSE [a |-> a, ba |-> l.ba, ret |-> Entity_new(0, 0), panic |-> TRUE]

\* a free that hands the block back with its versions forgotten
BlockAllocator_free_wiped(ba, block) ==
    [ba EXCEPT !.free = Append(@, EntityBlock_new(block.start, block.len))]

\* BlockAllocator::free
BlockAllocator_free(ba, block) == [ba EXCEPT !.free = Append(@, block)]

\* Drop for EntityAllocator: every block, first to last, goes to the BlockAllocator
RECURSIVE EntityAllocator_drop(_, _)
EntityAllocator_drop(blocks, ba) ==
    IF blocks = <<>> THEN ba
    ELSE EntityAllocator_drop(Tail(blocks), BlockAllocator_free(ba, Head(blocks)))

\* EntityAllocator::new
EntityAllocator_new == [blocks |-> <<>>, entity_buffer |-> <<>>]

\* blocks.iter_mut().filter_map(|b| b.free(entity)).nth(0): the position of the
\* first block whose free returns Some; 0 if none
RECURSIVE FirstFreeing(_, _, _)
FirstFreeing(blocks, k, entity) ==
    IF k > Len(blocks) THEN 0
    ELSE IF EntityBlock_free(blocks[k], entity).ret.some THEN k
    ELSE FirstFreeing(blocks, k + 1, entity)

\* EntityAllocator::delete_entity: [a, ret]
EntityAllocator_delete_entity(a, entity) ==
    LET k == FirstFreeing(a.blocks, 1, entity)
    IN  IF k > 0
        THEN LET r == EntityBlock_free(a.blocks[k], entity)
             IN  [a |-> [a EXCEPT !.blocks[k] = r.block], ret |-> r.ret.val]
        ELSE [a |-> a, ret |-> FALSE]

\* the record of a call: the operation, the allocator, the entity passed or
\* returned, the boolean returned (TRUE for a create), what is_alive said of the
\* entity just before the call, and how far the call continues the sequence
\* "create returns e, delete(e), create" on one allocator (chain 1, 2, 3; 0 when
\* it continues nothing), with e the entity of that sequence
Call(op, a, entity, ret, alive, chain, e) ==
    [op |-> op, a |-> a, entity |-> entity, ret |-> ret, was_alive |-> alive,
     chain |-> chain, e |-> e]

NoCall == Call("none", 0, Entity_new(0, 0), FALSE, FALSE, 0, Entity_new(0, 0))

\* a call of create_entity on allocator x leases a block when no owned block has room
NeedsLease(x) == FirstAllocating(allocators[x].blocks, Len(allocators[x].blocks)) = 0

CreateEntity(x) ==
    /\ ~panicked
    /\ (NeedsLease(x) /\ block_allocator.free = <<>>) =>
            block_allocator.allocated < MaxBlocks * BLOCK_SIZE
    /\ LET r == EntityAllocator_create_entity(allocators[x], block_allocator)
       IN  /\ allocators' = [allocators EXCEPT ![x] = r.a]
           /\ block_allocator' = r.ba
           /\ panicked' = r.panic
           /\ issued' = [issued EXCEPT ![x] = IF r.panic THEN @ ELSE @ \cup {r.ret}]
           /\ deleted' = [deleted EXCEPT ![x] = IF r.panic THEN @ ELSE @ \ {r.ret}]
           /\ last' = LET third == last.op = "delete" /\ last.chain = 2 /\ last.a = x
                       IN  IF r.panic THEN Call("create", x, r.ret, FALSE, FALSE, 0, r.ret)
                           ELSE Call("create", x, r.ret, TRUE,
                                     EntityAllocator_is_alive(allocators[x], r.ret),
                                     IF third THEN 3 ELSE 1,
                                     IF third THEN last.e ELSE r.ret)
    /\ UNCHANGED <<deletes, drops>>

DeleteEntity(x, entity) ==
    /\ ~panicked
    /\ deletes < MaxDeletes
    /\ deletes' = deletes + 1
    /\ LET r == EntityAllocator_delete_entity(allocators[x], entity)
       IN  /\ allocators' = [allocators EXCEPT ![x] = r.a]
           /\ last' = LET second == /\ last.op = "create" /\ last.a = x
                                     /\ last.entity = entity
                       IN  Call("delete", x, entity, r.ret,
                                EntityAllocator_is_alive(allocators[x], entity),
                                IF second THEN 2 ELSE 0, entity)
    /\ deleted' = [deleted EXCEPT ![x] = @ \cup ({entity} \cap issued[x])]
    /\ UNCHANGED <<block_allocator, issued, drops, panicked>>

\* allocator x goes out of scope and a new EntityAllocator on the same
\* BlockAllocator takes its place
DropAllocator(x) ==
    /\ ~panicked
    /\ drops < MaxDrops
    /\ allocators[x].blocks # <<>>
    /\ drops' = drops + 1
    /\ block_allocator' = EntityAllocator_drop(allocators[x].blocks, block_allocator)
    /\ allocators' = [allocators EXCEPT ![x] = EntityAllocator_new]
    /\ issued' = [issued EXCEPT ![x] = {}]
    /\ deleted' = [deleted EXCEPT ![x] = {}]
    /\ last' = Call("drop", x, Entity_new(0, 0), FALSE, FALSE, 0, Entity_new(0, 0))
    /\ UNCHANGED <<deletes, panicked>>

AllocInit ==
    /\ block_allocator = [allocated |-> 0, free |-> <<>>]
    /\ allocators = [x \in Allocators |-> EntityAllocator_new]
    /\ deletes = 0
    /\ drops = 0
    /\ panicked = FALSE
    /\ last = NoCall
    /\ issued = [x \in Allocators |-> {}]
    /\ deleted = [x \in Allocators |-> {}]

(***************************************************************************)
(* The World of src/src/lib.rs over its EntityAllocator, allocators[1].     *)
(* The chunk and archetype storage (mod storage) is not among the sources:  *)
(* Archetype_new, Chunk_new, Chunk_is_full, Chunk_append, Chunk_remove and  *)
(* Archetype_get_or_create_chunk follow section 4.2 of the specification.   *)
(* Archetype ids, chunk ids and slots are 0-based as in the source.         *)
(***************************************************************************)
WorldAllocator == 1

ComponentTypes == {"Pos", "Vel"}
ComponentValues == {1, 2}

\* the tuple types T::Item that insert is called with
ComponentTuples == {<<"Pos">>, <<"Pos", "Vel">>}

\* the shared tuples that insert is called with: () and (Model(v),)
SharedTuples ==
    {<<>>} \cup {<<[type |-> "Model", value |-> v]>> : v \in ComponentValues}

\* tuple types listing the same types in another order, and shared tuples of
\* arity 2 naming one type twice (with one value)
AnyComponentTuples == ComponentTuples \cup {<<"Vel", "Pos">>}

AnySharedTuples ==
    SharedTuples \cup {<<[type |-> "Model", value |-> v], [type |-> "Model", value |-> v]>> :
                          v \in ComponentValues}

\* the component sources: 1..MaxItems items; item v carries value v in each column
ItemLists == UNION {[1..n -> ComponentValues] : n \in 1..MaxItems}

Archetype_new(components, shared) ==
    [components |-> components, shared |-> shared, chunks |-> <<>>]

\* ChunkBuilder::build after shared.configure_chunk and components.configure_chunk
Chunk_new(shared, types) ==
    [entities |-> <<>>,
     data     |-> [t \in Range(types) |-> <<>>],
     shared   |-> shared,
     capacity |-> ChunkCapacity]

Chunk_is_full(chunk) == Len(chunk.entities) >= chunk.capacity

\* the component of type t of item number item: Pos(item), Vel(item)
ComponentOf(t, item) == <<t, item>>

\* a write that pushes the entity and leaves the component columns alone
Chunk_append_entity_only(chunk, entity, item) ==
    [chunk EXCEPT !.entities = Append(@, entity)]

\* one turn of the loop of write: the entity and one value per column are pushed
Chunk_append(chunk, entity, item) ==
    [chunk EXCEPT !.entities = Append(@, entity),
                  !.data = [t \in DOMAIN @ |-> Append(@[t], ComponentOf(t, item))]]

\* swap_remove(slot), slot < len: the tail of every column moves into the slot;
\* returns the entity moved into it, None when the removed entry was the tail
Chunk_remove(chunk, slot) ==
    [chunk |-> [chunk EXCEPT
                    !.entities = SwapRemove(@, slot + 1),
                    !.data = [t \in DOMAIN @ |-> SwapRemove(@[t], slot + 1)]],
     ret   |-> IF slot + 1 = Len(chunk.entities) THEN None
               ELSE Some(Last(chunk.entities))]

\* SharedDataSet::types and ComponentSource::types
Shared_types(shared) == {shared[n].type : n \in 1..Len(shared)}

Components_types(types) == Range(types)

\* SharedDataSet::is_archetype_match of a tuple of arity Len(shared)
Shared_is_archetype_match(shared, archetype) ==
    /\ Cardinality(archetype.shared) = Len(shared)
    /\ \A n \in 1..Len(shared) : shared[n].type \in archetype.shared

\* SharedDataSet::is_chunk_match: each shared value of the chunk equals the tuple's
Shared_is_chunk_match(shared, chunk) ==
    \A n \in 1..Len(shared) :
        \E m \in 1..Len(chunk.shared) :
            /\ chunk.shared[m].type = shared[n].type
            /\ chunk.shared[m].value = shared[n].value

\* ComponentSource::is_archetype_match of a tuple type of arity Len(types)
Components_is_archetype_match(types, archetype) ==
    /\ Cardinality(archetype.components) = Len(types)
    /\ \A n \in 1..Len(types) : types[n] \in archetype.components

\* the position (1-based) of the first archetype from position n on that matches
\* both the components and the shared tuple; 0 when none does
RECURSIVE FirstArchetype(_, _, _, _)
FirstArchetype(archs, shared, types, n) ==
    IF n > Len(archs) THEN 0
    ELSE IF /\ Components_is_archetype_match(types, archs[n])
            /\ Shared_is_archetype_match(shared, archs[n])
         THEN n
         ELSE FirstArchetype(archs, shared, types, n + 1)

\* World::archetype: the id of the matching archetype, a new one pushed when none
World_archetype(archs, shared, types) ==
    LET i == FirstArchetype(archs, shared, types, 1)
    IN  IF i # 0 THEN [archetypes |-> archs, arch_id |-> i - 1]
        ELSE [archetypes |-> Append(archs, Archetype_new(Components_types(types),
                                                          Shared_types(shared))),
              arch_id    |-> Len(archs)]

\* the position (1-based) of the first chunk from position n on that matches the
\* shared values and is not full; 0 when none does
RECURSIVE FirstChunk(_, _, _)
FirstChunk(chunks, shared, n) ==
    IF n > Len(chunks) THEN 0
    ELSE IF Shared_is_chunk_match(shared, chunks[n]) /\ ~Chunk_is_full(chunks[n])
         THEN n
         ELSE FirstChunk(chunks, shared, n + 1)

\* Archetype::get_or_create_chunk: the id of the matching chunk with room, a new
\* chunk with those shared values appended when there is none
Archetype_get_or_create_chunk(archetype, shared, types) ==
    LET i == FirstChunk(archetype.chunks, shared, 1)
    IN  IF i # 0 THEN [archetype |-> archetype, chunk_id |-> i - 1]
        ELSE [archetype |-> [archetype EXCEPT
                                !.chunks = Append(@, Chunk_new(shared, types))],
              chunk_id  |-> Len(archetype.chunks)]

\* ComponentSource::write: entities are created and appended, with their items,
\* until the chunk is full or the source is empty; count is the number appended
RECURSIVE ComponentSource_write(_, _, _, _)
\* one turn of its loop, r being what create_entity returned
WriteItem(chunk, r, items) ==
    IF r.panic
    THEN [chunk |-> chunk, a |-> r.a, ba |-> r.ba, items |-> items, count |-> 0,
          panic |-> TRUE]
    ELSE [ComponentSource_write(Chunk_append(chunk, r.ret, Head(items)),
                                r.a, r.ba, Tail(items))
            EXCEPT !.count = @ + 1]

ComponentSource_write(chunk, a, ba, items) ==
    IF Chunk_is_full(chunk) \/ items = <<>>
    THEN [chunk |-> chunk, a |-> a, ba |-> ba, items |-> items, count |-> 0,
          panic |-> FALSE]
    ELSE WriteItem(chunk, EntityAllocator_create_entity(a, ba), items)

\* HashMap::insert
MapInsert(map, k, v) == [e \in DOMAIN map \cup {k} |-> IF e = k THEN v ELSE map[e]]

\* the for loop of insert: the entities at slots start.. of the chunk are recorded
RECURSIVE RecordLocations(_, _, _, _, _)
RecordLocations(entities, column, arch_id, chunk_id, i) ==
    IF i >= Len(column) THEN entities
    ELSE RecordLocations(MapInsert(entities, column[i + 1], <<arch_id, chunk_id, i>>),
                         column, arch_id, chunk_id, i + 1)

\* the while loop of insert
RECURSIVE InsertLoop(_, _, _, _, _, _, _)
\* one turn of it: g is what get_or_create_chunk returned, wr what write returned
InsertChunk(w, arch_id, shared, types, g, wr) ==
    IF wr.panic THEN [world |-> w, a |-> wr.a, ba |-> wr.ba, panic |-> TRUE]
    ELSE
    InsertLoop([archetypes |-> [w.archetypes EXCEPT
                                    ![arch_id + 1] = [g.archetype EXCEPT
                                        !.chunks[g.chunk_id + 1] = wr.chunk]],
                entities   |-> RecordLocations(w.entities, wr.chunk.entities,
                                               arch_id, g.chunk_id,
                                               Len(wr.chunk.entities) - wr.count)],
               wr.a, wr.ba, arch_id, shared, types, wr.items)

WriteChunk(w, a, ba, arch_id, shared, types, items, g) ==
    InsertChunk(w, arch_id, shared, types, g,
                ComponentSource_write(g.archetype.chunks[g.chunk_id + 1], a, ba, items))

InsertLoop(w, a, ba, arch_id, shared, types, items) ==
    IF items = <<>> THEN [world |-> w, a |-> a, ba |-> ba, panic |-> FALSE]
    ELSE WriteChunk(w, a, ba, arch_id, shared, types, items,
                    Archetype_get_or_create_chunk(w.archetypes[arch_id + 1],
                                                  shared, types))

\* World::insert; ret is the allocation buffer
World_insert(w, a, ba, shared, types, items) ==
    LET ar == World_archetype(w.archetypes, shared, types)
        r == InsertLoop([w EXCEPT !.archetypes = ar.archetypes],
                        [a EXCEPT !.entity_buffer = <<>>], ba,
                        ar.arch_id, shared, types, items)
    IN  [world |-> r.world, a |-> r.a, ba |-> r.ba, ret |-> r.a.entity_buffer,
         panic |-> r.panic]

\* World::delete; panic when the recorded slot is beyond the chunk's occupancy
World_delete(w, a, entity) ==
    LET d == EntityAllocator_delete_entity(a, entity)
        known == d.ret /\ entity \in DOMAIN w.entities
        ids == w.entities[entity]
        found == /\ known
                 /\ ids[1] < Len(w.archetypes)
                 /\ ids[2] < Len(w.archetypes[ids[1] + 1].chunks)
        chunk == w.archetypes[ids[1] + 1].chunks[ids[2] + 1]
    IN  IF ~found
        THEN [world |-> w, a |-> d.a, ret |-> d.ret, panic |-> FALSE]
        ELSE IF ids[3] >= Len(chunk.entities)
        THEN [world |-> w, a |-> d.a, ret |-> d.ret, panic |-> TRUE]
        ELSE LET rm == Chunk_remove(chunk, ids[3])
                 archs == [w.archetypes EXCEPT ![ids[1] + 1].chunks[ids[2] + 1] = rm.chunk]
             IN  [world |-> [archetypes |-> archs,
                             entities   |-> IF rm.ret.some
                                            THEN MapInsert(w.entities, rm.ret.val, ids)
                                            ELSE w.entities],
                  a |-> d.a, ret |-> d.ret, panic |-> FALSE]

\* World::component::<T>(entity)
World_component(w, entity, T) ==
    IF entity \notin DOMAIN w.entities THEN None
    ELSE LET ids == w.entities[entity]
         IN  IF ids[1] >= Len(w.archetypes) THEN None
             ELSE IF ids[2] >= Len(w.archetypes[ids[1] + 1].chunks) THEN None
             ELSE LET chunk == w.archetypes[ids[1] + 1].chunks[ids[2] + 1]
                  IN  IF T \notin DOMAIN chunk.data THEN None
                      ELSE IF ids[3] >= Len(chunk.data[T]) THEN None
                      ELSE Some(chunk.data[T][ids[3] + 1])

\* World::component_mut::<T>(entity): the same walk, to the value's place
World_component_mut(w, entity, T) ==
    IF entity \notin DOMAIN w.entities THEN None
    ELSE LET ids == w.entities[entity]
         IN  IF ids[1] >= Len(w.archetypes) THEN None
             ELSE IF ids[2] >= Len(w.archetypes[ids[1] + 1].chunks) THEN None
             ELSE LET chunk == w.archetypes[ids[1] + 1].chunks[ids[2] + 1]
                  IN  IF T \notin DOMAIN chunk.data THEN None
                      ELSE IF ids[3] >= Len(chunk.data[T]) THEN None
                      ELSE Some(chunk.data[T][ids[3] + 1])

\* World::shared::<S>(entity): the shared component of the chunk the index
\* names, whatever the slot
World_shared(w, entity, S) ==
    IF entity \notin DOMAIN w.entities THEN None
    ELSE LET ids == w.entities[entity]
         IN  IF ids[1] >= Len(w.archetypes) THEN None
             ELSE IF ids[2] >= Len(w.archetypes[ids[1] + 1].chunks) THEN None
             ELSE LET chunk == w.archetypes[ids[1] + 1].chunks[ids[2] + 1]
                  IN  IF \E m \in 1..Len(chunk.shared) : chunk.shared[m].type = S
                      THEN Some(chunk.shared[CHOOSE m \in 1..Len(chunk.shared) :
                                    /\ chunk.shared[m].type = S
                                    /\ \A k \in 1..(m - 1) : chunk.shared[k].type # S].value)
                      ELSE None

\* World::is_alive
World_is_alive(a, entity) == EntityAllocator_is_alive(a, entity)

WorldCall(op, entity, ret) == [op |-> op, entity |-> entity, ret |-> ret]

\* a call of insert: the source it was given, the last entity of the slice it
\* returned, and whether it returned
InsertCall(entity, ret, items) ==
    [op |-> "insert", entity |-> entity, ret |-> ret, items |-> items]

\* the map a caller builds from the slice insert returns: the i-th entity to the
\* i-th item, as the tests of query_api.rs do
RECURSIVE Expect(_, _, _, _)
Expect(map, ret, items, i) ==
    IF i > Len(ret) \/ i > Len(items) THEN map
    ELSE Expect(MapInsert(map, ret[i], items[i]), ret, items, i + 1)

Insert(shared, types, items) ==
    /\ ~panicked
    /\ inserts < MaxInserts
    /\ block_allocator.allocated + Len(items) <= MaxBlocks * BLOCK_SIZE
    /\ inserts' = inserts + 1
    /\ LET r == World_insert(world, allocators[WorldAllocator], block_allocator,
                             shared, types, items)
       IN  /\ world' = r.world
           /\ allocators' = [allocators EXCEPT ![WorldAllocator] = r.a]
           /\ block_allocator' = r.ba
           /\ issued' = [issued EXCEPT ![WorldAllocator] = @ \cup Range(r.ret)]
           /\ deleted' = [deleted EXCEPT ![WorldAllocator] = @ \ Range(r.ret)]
           /\ panicked' = r.panic
           /\ expected' = Expect(expected, r.ret, items, 1)
           /\ world_last' = InsertCall(IF r.ret = <<>> THEN Entity_new(0, 0)
                                       ELSE Last(r.ret),
                                       ~r.panic, items)
    /\ UNCHANGED <<deletes, last, drops>>

Delete(entity) ==
    /\ ~panicked
    /\ deletes < MaxWorldDeletes
    /\ deletes' = deletes + 1
    /\ LET r == World_delete(world, allocators[WorldAllocator], entity)
       IN  /\ world' = r.world
           /\ allocators' = [allocators EXCEPT ![WorldAllocator] = r.a]
           /\ panicked' = r.panic
           /\ world_last' = WorldCall("delete", entity, r.ret)
    /\ deleted' = [deleted EXCEPT
                       ![WorldAllocator] = @ \cup ({entity} \cap issued[WorldAllocator])]
    /\ UNCHANGED <<block_allocator, last, issued, inserts, drops, expected>>

WorldInit ==
    /\ world = [archetypes |-> <<>>, entities |-> <<>>]
    /\ inserts = 0
    /\ world_last = WorldCall("none", Entity_new(0, 0), FALSE)
    /\ expected = <<>>

(***************************************************************************)
(* Queries of src/src/query.rs over the World.  A view is a tuple of one    *)
(* or two of Read<T>, Write<T>, Shared<T>; a filter built by And is the     *)
(* sequence of its conjuncts, Passthrough the empty sequence.  The chunk    *)
(* and archetype accessors used (has_component, has_shared, components,     *)
(* shared_component, len, entities) follow section 4.2 of the specification.*)
(***************************************************************************)
Read(T) == [kind |-> "Read", type |-> T]
Write(T) == [kind |-> "Write", type |-> T]
Shared(T) == [kind |-> "Shared", type |-> T]

EntityDataFilter(T) == [kind |-> "EntityData", type |-> T, not |-> FALSE]
SharedDataFilter(T) == [kind |-> "SharedData", type |-> T, not |-> FALSE]
SharedDataValueFilter(T, value) == [type |-> T, value |-> value, not |-> FALSE]
Not(f) == [f EXCEPT !.not = ~@]
Passthrough == <<>>
And(a, b) == a \o <<b>>

Archetype_has_component(archetype, T) == T \in archetype.components
Archetype_has_shared(archetype, T) == T \in archetype.shared

\* Chunk::shared_component::<T>(): the value of the shared type T, if any
Chunk_shared_component(chunk, T) ==
    IF \E m \in 1..Len(chunk.shared) : chunk.shared[m].type = T
    THEN Some(chunk.shared[CHOOSE m \in 1..Len(chunk.shared) :
                               /\ chunk.shared[m].type = T
                               /\ \A k \in 1..(m - 1) : chunk.shared[k].type # T].value)
    ELSE None

\* Chunk::components::<T>(): the column of T, if the chunk has one
Chunk_components(chunk, T) ==
    IF T \in DOMAIN chunk.data THEN Some(chunk.data[T]) ELSE None

Chunk_len(chunk) == Len(chunk.entities)

\* ArchetypeFilter::filter of EntityDataFilter, SharedDataFilter, Not and And
ArchetypeFilter_atom(f, archetype) ==
    (IF f.kind = "EntityData" THEN Archetype_has_component(archetype, f.type)
     ELSE Archetype_has_shared(archetype, f.type)) # f.not

ArchetypeFilter_filter(fs, archetype) ==
    \A n \in 1..Len(fs) : ArchetypeFilter_atom(fs[n], archetype)

\* a value filter whose negation still demands that the chunk has the type
ChunkFilter_atom_typed(f, chunk) ==
    /\ Chunk_shared_component(chunk, f.type).some
    /\ (Chunk_shared_component(chunk, f.type).val = f.value) # f.not

\* ChunkFilter::filter of SharedDataValueFilter, Not and And
ChunkFilter_atom(f, chunk) ==
    (/\ Chunk_shared_component(chunk, f.type).some
     /\ Chunk_shared_component(chunk, f.type).val = f.value) # f.not

ChunkFilter_filter(fs, chunk) ==
    \A n \in 1..Len(fs) : ChunkFilter_atom(fs[n], chunk)

\* View::filter: of one element, and the And of a tuple's
View_filter_of(v) ==
    IF v.kind = "Shared" THEN SharedDataFilter(v.type) ELSE EntityDataFilter(v.type)

View_filter(view) == [n \in 1..Len(view) |-> View_filter_of(view[n])]

\* Queryable::query
Query_new(view) ==
    [view |-> view, arch_filter |-> View_filter(view), chunk_filter |-> Passthrough]

Query_with_entity_data(q, T) ==
    [q EXCEPT !.arch_filter = And(@, EntityDataFilter(T))]
Query_without_entity_data(q, T) ==
    [q EXCEPT !.arch_filter = And(@, Not(EntityDataFilter(T)))]
Query_with_shared_data(q, T) ==
    [q EXCEPT !.arch_filter = And(@, SharedDataFilter(T))]
Query_without_shared_data(q, T) ==
    [q EXCEPT !.arch_filter = And(@, Not(SharedDataFilter(T)))]
Query_with_shared_data_value(q, T, value) ==
    [q EXCEPT !.chunk_filter = And(@, SharedDataValueFilter(T, value))]
Query_without_shared_data_value(q, T, value) ==
    [q EXCEPT !.chunk_filter = And(@, Not(SharedDataValueFilter(T, value)))]

\* Iterator::zip: pairs up to the shorter length
Zip(s, t) ==
    [i \in 1..(IF Len(s) <= Len(t) THEN Len(s) ELSE Len(t)) |-> <<s[i], t[i]>>]

\* Iterator::flat_map over a sequence of sequences
RECURSIVE Flatten(_)
Flatten(seqs) == IF seqs = <<>> THEN <<>> ELSE Head(seqs) \o Flatten(Tail(seqs))

\* View::fetch of one element: the column, or the shared value chunk.len() times;
\* unwrap panics (None here) when the chunk lacks the type
View_fetch_of(v, chunk) ==
    IF v.kind = "Shared"
    THEN LET data == Chunk_shared_component(chunk, v.type)
         IN  IF data.some THEN Some([i \in 1..Chunk_len(chunk) |-> data.val]) ELSE None
    ELSE Chunk_components(chunk, v.type)

\* View::fetch of a view: the items of a single view, the zip of a tuple's
View_fetch(view, chunk) ==
    IF Len(view) = 1 THEN View_fetch_of(view[1], chunk).val
    ELSE Zip(View_fetch_of(view[1], chunk).val, View_fetch_of(view[2], chunk).val)

\* fetch does not panic: the chunk has every type of the view
View_fetchable(view, chunk) ==
    \A n \in 1..Len(view) : View_fetch_of(view[n], chunk).some

\* into_chunks that walks the archetypes, and the chunks of each, last to first
Query_into_chunks_rev(w, q) ==
    LET archs == SelectSeq(w.archetypes,
                           LAMBDA a : ArchetypeFilter_filter(q.arch_filter, a))
        chunks == SelectSeq(Flatten([i \in 1..Len(archs) |-> archs[i].chunks]),
                            LAMBDA c : ChunkFilter_filter(q.chunk_filter, c))
    IN  [i \in 1..Len(chunks) |-> chunks[Len(chunks) + 1 - i]]

\* Query::into_chunks: the chunks, in order, of the archetypes that pass the
\* archetype filter, that pass the chunk filter
Query_into_chunks(w, q) ==
    LET archs == SelectSeq(w.archetypes,
                           LAMBDA a : ArchetypeFilter_filter(q.arch_filter, a))
    IN  SelectSeq(Flatten([i \in 1..Len(archs) |-> archs[i].chunks]),
                  LAMBDA c : ChunkFilter_filter(q.chunk_filter, c))

\* ChunkView::data and ChunkView::data_with_entities
ChunkView_data(view, chunk) == View_fetch(view, chunk)

ChunkView_data_with_entities(view, chunk) ==
    Zip(chunk.entities, View_fetch(view, chunk))

\* Query::into_data and Query::into_data_with_entities
Query_into_data(w, q) ==
    LET chunks == Query_into_chunks(w, q)
    IN  Flatten([i \in 1..Len(chunks) |-> ChunkView_data(q.view, chunks[i])])

Query_into_data_with_entities(w, q) ==
    LET chunks == Query_into_chunks(w, q)
    IN  Flatten([i \in 1..Len(chunks) |->
                    ChunkView_data_with_entities(q.view, chunks[i])])

\* the queries: a view, and at most one filter added by a builder call
Views ==
    {<<Read("Pos")>>, <<Write("Vel")>>, <<Read("Pos"), Write("Vel")>>,
     <<Read("Pos"), Shared("Model")>>}

QueriesOf(view) ==
    LET q == Query_new(view)
    IN  {q,
         Query_with_entity_data(q, "Vel"), Query_without_entity_data(q, "Vel"),
         Query_with_shared_data(q, "Model"), Query_without_shared_data(q, "Model"),
         Query_with_shared_data_value(q, "Model", 1),
         Query_without_shared_data_value(q, "Model", 1)}

Queries == UNION {QueriesOf(view) : view \in Views}

(***************************************************************************)
(* Resources (src/src/resource.rs): one AtomicRefCell per resource type.    *)
(*                                                                          *)
(* The cell is its borrow counter: 0 when nothing borrows it, n > 0 under n *)
(* shared borrows, -1 under the exclusive borrow.  A guard (Read or Write   *)
(* of resource.rs) is [type, exclusive]; a thread's live guards are the     *)
(* sequence guards[h], and the guard a system holds inside fetch is         *)
(* runs[s].guard.                                                           *)
(***************************************************************************)
ResourceTypes == {"Time", "Input"}

\* the values a resource may have
ResourceValues == {1, 2}

\* the threads that call Resources::get and get_mut directly
Holders == {1, 2}

\* the threads that run a system each (System::run)
Runners == {1, 2}

\* AtomicRefCell::new(value): the value in an unborrowed cell
AtomicRefCell_new(value) == [borrow_state |-> 0, value |-> value]

\* AtomicRefCell::get: one more shared borrow, a panic under the exclusive one
AtomicRefCell_get(cell) ==
    IF cell.borrow_state >= 0
    THEN [cell |-> [cell EXCEPT !.borrow_state = @ + 1], panic |-> FALSE]
    ELSE [cell |-> cell, panic |-> TRUE]

\* AtomicRefCell::get_mut: the exclusive borrow, a panic under any borrow
AtomicRefCell_get_mut(cell) ==
    IF cell.borrow_state = 0
    THEN [cell |-> [cell EXCEPT !.borrow_state = -1], panic |-> FALSE]
    ELSE [cell |-> cell, panic |-> TRUE]

\* Drop of Ref (inside Read) and of RefMut (inside Write)
Guard_drop(cell, guard) ==
    IF guard.exclusive
    THEN [cell EXCEPT !.borrow_state = 0]
    ELSE [cell EXCEPT !.borrow_state = @ - 1]

ResourceGuard(T, exclusive) == [type |-> T, exclusive |-> exclusive]

Resources_contains(storage, T) == storage[T].some

\* an insert that keeps the value stored before
Resources_insert_keep(storage, T, value) ==
    IF storage[T].some THEN storage
    ELSE [storage EXCEPT ![T] = Some(AtomicRefCell_new(value))]

\* Resources::insert: HashMap::insert of a new cell, replacing the one stored
Resources_insert(storage, T, value) ==
    [storage EXCEPT ![T] = Some(AtomicRefCell_new(value))]

\* Resources::remove: HashMap::remove, then the value out of the cell
Resources_remove(storage, T) ==
    [storage |-> [storage EXCEPT ![T] = None],
     ret     |-> IF storage[T].some THEN Some(storage[T].val.value) ELSE None]

\* Deref of Read and Write: the value in the guard's cell
Guard_deref(storage, guard) == storage[guard.type].val.value

\* Resources::get: None for a type that is not stored (the ? operator), else
\* the Read guard around the cell's shared borrow
Resources_get(storage, T) ==
    IF ~storage[T].some
    THEN [storage |-> storage, ret |-> None, panic |-> FALSE]
    ELSE LET r == AtomicRefCell_get(storage[T].val)
         IN  [storage |-> [storage EXCEPT ![T] = Some(r.cell)],
              ret     |-> IF r.panic THEN None ELSE Some(ResourceGuard(T, FALSE)),
              panic   |-> r.panic]

\* Resources::get_mut taking the shared borrow that get takes
Resources_get_mut_shared(storage, T) == Resources_get(storage, T)

\* Resources::get_mut: the same around the exclusive borrow
Resources_get_mut(storage, T) ==
    IF ~storage[T].some
    THEN [storage |-> storage, ret |-> None, panic |-> FALSE]
    ELSE LET r == AtomicRefCell_get_mut(storage[T].val)
         IN  [storage |-> [storage EXCEPT ![T] = Some(r.cell)],
              ret     |-> IF r.panic THEN None ELSE Some(ResourceGuard(T, TRUE)),
              panic   |-> r.panic]

\* the guards of the sequence gs are dropped, in order
RECURSIVE DropGuards(_, _)
DropGuards(storage, gs) ==
    IF gs = <<>> THEN storage
    ELSE DropGuards([storage EXCEPT
                        ![gs[1].type] = Some(Guard_drop(@.val, gs[1]))],
                    Tail(gs))

\* the descriptors of a ResourceSet
ReadWrapper(T) == [exclusive |-> FALSE, type |-> T]

WriteWrapper(T) == [exclusive |-> TRUE, type |-> T]

ResourceSets ==
    {ReadWrapper(T) : T \in ResourceTypes} \cup {WriteWrapper(T) : T \in ResourceTypes}

\* the first statement of ResourceSet::fetch: resources.get::<T>().unwrap() of
\* ReadWrapper, resources.get_mut::<T>().unwrap() of WriteWrapper; unwrap
\* panics on None
ResourceSet_fetch_acquire(storage, set) ==
    LET r == IF set.exclusive THEN Resources_get_mut(storage, set.type)
                              ELSE Resources_get(storage, set.type)
    IN  [storage |-> r.storage, guard |-> r.ret,
         panic |-> r.panic \/ ~r.ret.some]

\* PreparedReadWrapper::new / PreparedWriteWrapper::new: the raw pointer to
\* the resource, which borrows nothing
PreparedWrapper_new(guard) == [type |-> guard.type, exclusive |-> guard.exclusive]

ResCall(op, who, T, ret) ==
    [op |-> op, who |-> who, type |-> T, ret |-> ret, value |-> None]

\* a call that passes or returns a value of the resource
ResValueCall(op, who, T, ret, value) ==
    [op |-> op, who |-> who, type |-> T, ret |-> ret, value |-> value]

IdleRun == [pc |-> "idle", guard |-> None, resources |-> None]

\* nothing borrows the Resources value itself: what insert and remove, which
\* take &mut self, need
ResourcesUnborrowed ==
    /\ \A h \in Holders : guards[h] = <<>>
    /\ \A s \in Runners : runs[s].pc = "idle"

\* the outcome r of Resources::get or get_mut reaches thread h: the guard
\* joins the guards it holds; a panic unwinds the thread, which drops the
\* guards it holds
Acquire(h, op, T, r) ==
    /\ res_ops < MaxResourceOps
    /\ resources' = IF r.panic THEN DropGuards(r.storage, guards[h]) ELSE r.storage
    /\ guards' = [guards EXCEPT ![h] =
                     IF r.panic THEN <<>>
                     ELSE IF r.ret.some THEN Append(@, r.ret.val) ELSE @]
    /\ released' = [U \in ResourceTypes |->
                      \/ released[U]
                      \/ r.panic /\ \E k \in 1..Len(guards[h]) : guards[h][k].type = U]
    /\ res_last' = ResValueCall(op, h, T,
                                IF r.panic THEN "panic"
                                ELSE IF r.ret.some THEN "guard" ELSE "none",
                                IF r.ret.some
                                THEN Some(Guard_deref(r.storage, r.ret.val))
                                ELSE None)
    /\ res_ops' = res_ops + 1
    /\ UNCHANGED runs

\* a thread calls Resources::get::<T>()
Get(h, T) == Acquire(h, "get", T, Resources_get(resources, T))

\* a thread calls Resources::get_mut::<T>()
GetMut(h, T) == Acquire(h, "get_mut", T, Resources_get_mut(resources, T))

\* a thread drops the k-th of its guards
DropGuard(h, k) ==
    /\ k \in 1..Len(guards[h])
    /\ LET guard == guards[h][k]
       IN  /\ resources' = DropGuards(resources, <<guard>>)
           /\ released' = [released EXCEPT ![guard.type] = TRUE]
           /\ res_last' = ResCall("drop", h, guard.type, "done")
    /\ guards' = [guards EXCEPT ![h] =
                     SubSeq(@, 1, k - 1) \o SubSeq(@, k + 1, Len(@))]
    /\ UNCHANGED <<runs, res_ops>>

\* Resources::insert::<T>(value)
ResourcesInsert(T, value) ==
    /\ res_ops < MaxResourceOps
    /\ ResourcesUnborrowed
    /\ resources' = Resources_insert(resources, T, value)
    /\ released' = [released EXCEPT ![T] = FALSE]
    /\ res_last' = ResValueCall("insert", 0, T, "done", Some(value))
    /\ res_ops' = res_ops + 1
    /\ UNCHANGED <<guards, runs>>

\* Resources::remove::<T>()
ResourcesRemove(T) ==
    /\ res_ops < MaxResourceOps
    /\ ResourcesUnborrowed
    /\ LET r == Resources_remove(resources, T)
       IN  /\ resources' = r.storage
           /\ res_last' = ResValueCall("remove", 0, T,
                                       IF r.ret.some THEN "some" ELSE "none", r.ret)
    /\ released' = [released EXCEPT ![T] = FALSE]
    /\ res_ops' = res_ops + 1
    /\ UNCHANGED <<guards, runs>>

\* System::run on thread s, up to the guard that fetch takes: a system whose
\* resource set is `set` calls R::fetch, which acquires the guard or panics
RunFetch(s, set) ==
    /\ res_ops < MaxResourceOps
    /\ runs[s].pc = "idle"
    /\ LET r == ResourceSet_fetch_acquire(resources, set)
       IN  /\ resources' = r.storage
           /\ runs' = [runs EXCEPT ![s] =
                          IF r.panic THEN IdleRun
                          ELSE [pc |-> "fetch", guard |-> r.guard, resources |-> None]]
           /\ res_last' = ResCall("fetch", s, set.type,
                                  IF r.panic THEN "panic" ELSE "guard")
    /\ res_ops' = res_ops + 1
    /\ UNCHANGED <<guards, released>>

\* fetch returns: the prepared wrapper is built from the guard's pointer and
\* the guard, a local of fetch, is dropped; the system function then runs
\* with the prepared resources
FetchReturn(s) ==
    /\ runs[s].pc = "fetch"
    /\ LET guard == runs[s].guard.val
       IN  /\ resources' = DropGuards(resources, <<guard>>)
           /\ runs' = [runs EXCEPT ![s] =
                          [pc |-> "run", guard |-> None,
                           resources |-> Some(PreparedWrapper_new(guard))]]
           /\ released' = [released EXCEPT ![guard.type] = TRUE]
           /\ res_last' = ResCall("fetch", s, guard.type, "prepared")
    /\ UNCHANGED <<guards, res_ops>>

\* System::run returns: the prepared resources go out of scope
RunReturn(s) ==
    /\ runs[s].pc = "run"
    /\ runs' = [runs EXCEPT ![s] = IdleRun]
    /\ res_last' = ResCall("run", s, runs[s].resources.val.type, "done")
    /\ UNCHANGED <<resources, guards, released, res_ops>>

\* a world whose resources were inserted at setup
ResInit ==
    /\ resources = [T \in ResourceTypes |-> Some(AtomicRefCell_new(1))]
    /\ guards = [h \in Holders |-> <<>>]
    /\ runs = [s \in Runners |-> IdleRun]
    /\ released = [T \in ResourceTypes |-> FALSE]
    /\ res_last = ResCall("new", 0, "Time", "done")
    /\ res_ops = 0

vars == <<schedVars, allocVars, worldVars, resVars>>

SchedNext ==
    \/ ExecuteBegin /\ UNCHANGED <<allocVars, worldVars, resVars>>
    \/ \E i \in Sys : ScanItem(i) /\ UNCHANGED <<allocVars, worldVars, resVars>>
    \/ \E i \in Sys : FinishRun(i) /\ UNCHANGED <<allocVars, worldVars, resVars>>
    \/ \E i \in Sys : PanicRun(i) /\ UNCHANGED <<allocVars, worldVars, resVars>>
    \/ \E j \in Sys : Notify(j) /\ UNCHANGED <<allocVars, worldVars, resVars>>
    \/ ExecuteReturn /\ UNCHANGED <<allocVars, worldVars, resVars>>
    \/ \E matching \in SUBSET Sys : ArchetypeCreated(matching) /\ UNCHANGED <<allocVars, worldVars, resVars>>

\* the scheduler on its own: the allocators stay as constructed
SchedSpecInit == SchedInit /\ AllocInit /\ WorldInit /\ ResInit

SchedSpec == SchedSpecInit /\ [][SchedNext]_vars

\* two EntityAllocators sharing one BlockAllocator: the scheduler stays an empty stage
AllocNext ==
    \/ \E x \in Allocators : CreateEntity(x) /\ UNCHANGED <<schedVars, worldVars, resVars>>
    \/ \E x \in Allocators : \E entity \in Entity :
            DeleteEntity(x, entity) /\ UNCHANGED <<schedVars, worldVars, resVars>>

IdleStage ==
    /\ systems = <<>>
    /\ world_archetypes = 1
    /\ query_matches = <<>>
    /\ archetypes = <<>>
    /\ static_dependants = <<>>
    /\ dynamic_dependants = <<>>
    /\ static_dependancy_counts = <<>>
    /\ awaiting = <<>>
    /\ dispatching = FALSE
    /\ scanned = {}
    /\ running = <<>>
    /\ started = <<>>
    /\ finished = <<>>
    /\ notifying = <<>>
    /\ log = <<>>
    /\ executions = 0
    /\ command_buffer = [k \in 1..Len(systems) |-> <<>>]
    /\ panics = 0

AllocSpecInit == IdleStage /\ AllocInit /\ WorldInit /\ ResInit

AllocSpec == AllocSpecInit /\ [][AllocNext]_vars

\* EntityAllocators that are created, used and dropped on one BlockAllocator
DropNext ==
    \/ \E x \in Allocators : CreateEntity(x) /\ UNCHANGED <<schedVars, worldVars, resVars>>
    \/ \E x \in Allocators : \E entity \in Entity :
            /\ deletes < MaxDropDeletes
            /\ DeleteEntity(x, entity)
            /\ UNCHANGED <<schedVars, worldVars, resVars>>
    \/ \E x \in Allocators : DropAllocator(x) /\ UNCHANGED <<schedVars, worldVars, resVars>>

DropSpecInit == IdleStage /\ AllocInit /\ WorldInit /\ ResInit

DropSpec == DropSpecInit /\ [][DropNext]_vars

\* a World over allocator 1 of a fresh Universe
WorldNext ==
    \/ \E shared \in SharedTuples : \E types \in ComponentTuples : \E items \in ItemLists :
            Insert(shared, types, items) /\ UNCHANGED <<schedVars, resVars>>
    \/ \E entity \in Entity : Delete(entity) /\ UNCHANGED <<schedVars, resVars>>

WorldSpecInit == IdleStage /\ AllocInit /\ WorldInit /\ ResInit

WorldSpec == WorldSpecInit /\ [][WorldNext]_vars

\* inserts only, with tuples of any of the shapes above
ArchetypeNext ==
    \E shared \in AnySharedTuples : \E types \in AnyComponentTuples :
        \E items \in ItemLists :
            Insert(shared, types, items) /\ UNCHANGED <<schedVars, resVars>>

ArchetypeSpecInit == IdleStage /\ AllocInit /\ WorldInit /\ ResInit

ArchetypeSpec == ArchetypeSpecInit /\ [][ArchetypeNext]_vars

\* threads using the resources directly and through running systems
ResourceNext ==
    \/ \E h \in Holders, T \in ResourceTypes :
            Get(h, T) /\ UNCHANGED <<schedVars, allocVars, worldVars>>
    \/ \E h \in Holders, T \in ResourceTypes :
            GetMut(h, T) /\ UNCHANGED <<schedVars, allocVars, worldVars>>
    \/ \E h \in Holders, k \in 1..MaxResourceOps :
            DropGuard(h, k) /\ UNCHANGED <<schedVars, allocVars, worldVars>>
    \/ \E T \in ResourceTypes, value \in ResourceValues :
            ResourcesInsert(T, value) /\ UNCHANGED <<schedVars, allocVars, worldVars>>
    \/ \E T \in ResourceTypes :
            ResourcesRemove(T) /\ UNCHANGED <<schedVars, allocVars, worldVars>>
    \/ \E s \in Runners, set \in ResourceSets :
            RunFetch(s, set) /\ UNCHANGED <<schedVars, allocVars, worldVars>>
    \/ \E s \in Runners : FetchReturn(s) /\ UNCHANGED <<schedVars, allocVars, worldVars>>
    \/ \E s \in Runners : RunReturn(s) /\ UNCHANGED <<schedVars, allocVars, worldVars>>

ResourceSpecInit == IdleStage /\ AllocInit /\ WorldInit /\ ResInit

ResourceSpec == ResourceSpecInit /\ [][ResourceNext]_vars

(***************************************************************************)
(* Claims about the scheduler.                                              *)
(***************************************************************************)
\* the declared access of system i, as sets
ResReads(i)   == Range(systems[i].resources.reads)
ResWrites(i)  == Range(systems[i].resources.writes)
CompReads(i)  == Range(systems[i].components.reads)
CompWrites(i) == Range(systems[i].components.writes)

\* execute has been called and has returned (not unwound by a panic)
Returned == executions > 0 /\ ~dispatching /\ panics = 0

\* C1: a stage [S1, S2] in which S1 declares a write of a resource that S2
\* declares a read of: S2's run never starts before S1's run has returned, and
\* the log of an execute is [S1, S2].
C1_WriterBeforeReader ==
    (NSys = 2 /\ ResWrites(1) \cap ResReads(2) # {}) =>
        /\ started[2] > 0 => finished[1] > 0
        /\ Returned => log = <<1, 2>>

\* C2: scheduler safety: two distinct systems running at the same time have no
\* declared write of a resource the other reads or writes, and no declared write
\* of a component the other reads or writes while their archetype sets intersect.
ResourceConflict(i, j) ==
    \/ ResWrites(i) \cap (ResReads(j) \cup ResWrites(j)) # {}
    \/ ResWrites(j) \cap (ResReads(i) \cup ResWrites(i)) # {}

ComponentConflict(i, j) ==
    /\ \/ CompWrites(i) \cap (CompReads(j) \cup CompWrites(j)) # {}
       \/ CompWrites(j) \cap (CompReads(i) \cup CompWrites(i)) # {}
    /\ archetypes[i] \cap archetypes[j] # {}

C2_SchedulerSafety ==
    \A i \in Sys : \A j \in Sys :
        (i # j /\ running[i] > 0 /\ running[j] > 0) =>
            ~ResourceConflict(i, j) /\ ~ComponentConflict(i, j)

\* C3: for every edge i -> j (j listed in static_dependants[i]), the run of j
\* does not begin until the run of i has returned.
C3_DependantAfterDependancy ==
    NSys > 1 =>
        \A i \in Sys : \A j \in Range(static_dependants[i]) :
            started[j] > 0 => finished[i] > 0

\* C4: the stage of builder_schedule_execute, both systems matching the same
\* archetype: each closure is invoked once, and the log of the execute is [A, B].
C4_BuilderScheduleExecute ==
    (systems = BuilderStage /\ query_matches = <<{1}, {1}>> /\ executions = 1) =>
        /\ \A i \in Sys : started[i] <= 1
        /\ Returned => log = <<1, 2>>

(***************************************************************************)
(* Claims about the World and the entity allocator.                         *)
(***************************************************************************)
\* the entity index maps e to the slot of the chunk column that holds e
Located(e) ==
    /\ e \in DOMAIN world.entities
    /\ LET ids == world.entities[e]
       IN  /\ ids[1] < Len(world.archetypes)
           /\ ids[2] < Len(world.archetypes[ids[1] + 1].chunks)
           /\ LET column == world.archetypes[ids[1] + 1].chunks[ids[2] + 1].entities
              IN  ids[3] < Len(column) /\ column[ids[3] + 1] = e

\* C5: location consistency.  After any sequence of World::insert and
\* World::delete calls, every entity that World::is_alive reports alive is mapped
\* by the entity index to (archetype, chunk, slot) and the entity column of that
\* chunk holds the entity at that slot.
C5_LocationConsistency ==
    \A e \in Entity :
        World_is_alive(allocators[WorldAllocator], e) => Located(e)

\* C6: swap-remove preservation.  A call World::delete(e), for any handle e,
\* leaves every other entity x that was alive before the call alive, and
\* component::<T>(x) returns the same value as before for every component type T.
C6_SwapRemovePreservation ==
    [][(world_last'.op = "delete" /\ deletes' = deletes + 1) =>
        \A x \in Entity \ {world_last'.entity} :
            World_is_alive(allocators[WorldAllocator], x) =>
                /\ World_is_alive(allocators'[WorldAllocator], x)
                /\ \A T \in ComponentTypes :
                       World_component(world', x, T) = World_component(world, x, T)]_vars

\* C7: cross-allocator disjointness.  For two EntityAllocators sharing one
\* BlockAllocator, under any interleaving of create_entity and delete_entity, no
\* Entity returned by one is returned by the other, and every entity issued by
\* one is reported not alive by the other.
C7_CrossAllocatorDisjoint ==
    \A x \in Allocators : \A y \in Allocators \ {x} :
        /\ issued[x] \cap issued[y] = {}
        /\ \A e \in issued[x] : ~EntityAllocator_is_alive(allocators[y], e)

\* C8: version reuse.  When create_entity returned e, delete_entity(e) was called
\* next and the next create_entity on the same allocator returned f, then f has
\* the index of e and another version, e is not alive and f is alive.
C8_VersionReuse ==
    (last.op = "create" /\ last.chain = 3) =>
        /\ last.entity.index = last.e.index
        /\ last.entity.version # last.e.version
        /\ ~EntityAllocator_is_alive(allocators[last.a], last.e)
        /\ EntityAllocator_is_alive(allocators[last.a], last.entity)

\* C9: is_alive(e) is false for every handle the allocator never returned from
\* create_entity and for every handle delete_entity was called on (and that was
\* not returned again since); it is true for a returned handle not deleted.
C9_IsAlive ==
    \A x \in Allocators : \A e \in Entity :
        /\ e \notin issued[x] => ~EntityAllocator_is_alive(allocators[x], e)
        /\ e \in deleted[x] => ~EntityAllocator_is_alive(allocators[x], e)
        /\ e \in issued[x] \ deleted[x] => EntityAllocator_is_alive(allocators[x], e)

\* C10: delete_entity(e) returns true exactly when is_alive(e) was true just
\* before the call: true for a live entity, false for an entity already deleted,
\* false for a handle never allocated.
C10_DeleteReturnsWasAlive ==
    [][(last'.op = "delete" /\ deletes' = deletes + 1) =>
        LET x == last'.a
            e == last'.entity
        IN  /\ last'.ret = EntityAllocator_is_alive(allocators[x], e)
            /\ e \in issued[x] \ deleted[x] => last'.ret
            /\ e \in deleted[x] => ~last'.ret
            /\ e \notin issued[x] => ~last'.ret]_vars

\* C11: a delete of a handle that is not alive changes nothing.  When
\* delete_entity(e) returns false no slot version is bumped and no index is
\* pushed on a free-list; a version is bumped and an index pushed only when the
\* stored version equalled e.version (e was alive just before the call).
C11_DeadDeleteChangesNothing ==
    [][(last'.op = "delete" /\ deletes' = deletes + 1) =>
        /\ ~last'.ret => allocators' = allocators
        /\ allocators' # allocators => last'.was_alive]_vars

\* C12: all entity-allocator operations are total.  In every reachable state of
\* EntityAllocators sharing one BlockAllocator, also after allocators were
\* dropped and their blocks returned, no call of create_entity, delete_entity or
\* is_alive panics.
C12_AllocatorTotal == ~panicked

\* C13: archetype uniqueness.  After any sequence of World::insert calls, with
\* component and shared tuples of any arity and type order, no two archetypes of
\* the world have the same (component-type set, shared-type set) pair.
C13_ArchetypeUnique ==
    \A a \in 1..Len(world.archetypes) : \A b \in 1..Len(world.archetypes) :
        (/\ world.archetypes[a].components = world.archetypes[b].components
         /\ world.archetypes[a].shared = world.archetypes[b].shared) => a = b

StoredEntities ==
    UNION {Range(world.archetypes[a].chunks[c].entities) :
             <<a, c>> \in {<<a, c>> \in (1..Len(world.archetypes)) \X (1..MaxInserts * MaxItems) :
                              c <= Len(world.archetypes[a].chunks)}}

\* entity e is stored in a chunk that passes the chunk filter of q, of an
\* archetype that passes its archetype filter
Passes(e, q) ==
    \E a \in 1..Len(world.archetypes) : \E c \in 1..Len(world.archetypes[a].chunks) :
        /\ e \in Range(world.archetypes[a].chunks[c].entities)
        /\ ArchetypeFilter_filter(q.arch_filter, world.archetypes[a])
        /\ ChunkFilter_filter(q.chunk_filter, world.archetypes[a].chunks[c])

\* how many items of the sequence r are about entity e
Yielded(r, e) == Cardinality({i \in 1..Len(r) : r[i][1] = e})

\* C15: iteration completeness.  For any query and any world state reached by
\* inserts and deletes, into_data_with_entities yields each entity exactly once
\* if and only if its archetype passes the archetype filter and its chunk the
\* chunk filter (and not at all otherwise), and into_data yields as many items
\* as there are such entities.
C15_IterationComplete ==
    \A q \in Queries :
        LET r == Query_into_data_with_entities(world, q)
        IN  /\ \A e \in Entity :
                  Yielded(r, e) = (IF e \in StoredEntities /\ Passes(e, q) THEN 1 ELSE 0)
            /\ Len(Query_into_data(world, q)) =
                  Cardinality({e \in StoredEntities : Passes(e, q)})

\* the queries whose views are Read, Write or a tuple of them
ComponentQueries == {q \in Queries : \A n \in 1..Len(q.view) : q.view[n].kind # "Shared"}

\* the data of an item, as the tuple of its elements
DataTuple(q, data) == IF Len(q.view) = 1 THEN <<data>> ELSE data

\* C16: query results pair every entity with its own data.  For every
\* (entity, data) item yielded by into_data_with_entities over a single or tuple
\* view of Read and Write, each element of data is the component of its type
\* that the entity was inserted with.
C16_EntityWithOwnData ==
    \A q \in ComponentQueries :
        LET r == Query_into_data_with_entities(world, q)
        IN  \A i \in 1..Len(r) :
                /\ r[i][1] \in DOMAIN expected
                /\ \A n \in 1..Len(q.view) :
                       DataTuple(q, r[i][2])[n] =
                           ComponentOf(q.view[n].type, expected[r[i][1]])

\* the rows (archetype, chunk, slot), 1-based, of the chunks that pass the
\* filters of q
Rows(q) ==
    {t \in (1..Len(world.archetypes)) \X (1..MaxInserts * MaxItems) \X (1..ChunkCapacity) :
        /\ t[2] <= Len(world.archetypes[t[1]].chunks)
        /\ t[3] <= Len(world.archetypes[t[1]].chunks[t[2]].entities)
        /\ ArchetypeFilter_filter(q.arch_filter, world.archetypes[t[1]])
        /\ ChunkFilter_filter(q.chunk_filter, world.archetypes[t[1]].chunks[t[2]])}

\* row t comes before row u: archetype creation order, then chunk creation
\* order within the archetype, then slot
RowBefore(t, u) ==
    \/ t[1] < u[1]
    \/ t[1] = u[1] /\ t[2] < u[2]
    \/ t[1] = u[1] /\ t[2] = u[2] /\ t[3] < u[3]

C18_InsertReturnsCreated ==
    [][(world_last'.op = "insert" /\ inserts' = inserts + 1 /\ world_last'.ret) =>
        LET ret == allocators'[WorldAllocator].entity_buffer
            items == world_last'.items
        IN  /\ Len(ret) = Len(items)
            /\ \A i \in 1..Len(ret) : \A j \in 1..Len(ret) : ret[i] = ret[j] => i = j
            /\ \A i \in 1..Len(ret) :
                  /\ ret[i] \notin issued[WorldAllocator]
                  /\ World_is_alive(allocators'[WorldAllocator], ret[i])
                  /\ World_component(world', ret[i], "Pos") =
                         Some(ComponentOf("Pos", items[i]))
                  /\ World_component(world', ret[i], "Vel") \in
                         {None, Some(ComponentOf("Vel", items[i]))}]_vars

\* the prepared resources of two systems conflict: the same resource type,
\* and one of them for writing
PreparedConflict(a, b) == a.type = b.type /\ (a.exclusive \/ b.exclusive)

\* C19: while one running system holds the prepared resource fetched for
\* Write<T>, a fetch of Read<T> or Write<T> by another running system panics,
\* and so does a fetch of Write<T> while another system holds a fetched
\* Read<T>: no fetch called while another system holds a conflicting prepared
\* resource gets past its acquisition.
C19_ConflictingFetchPanics ==
    [][\A s, t \in Runners :
          (/\ s # t
           /\ runs[t].pc = "run"
           /\ runs[s].pc = "idle"
           /\ runs'[s].pc = "fetch")
          => ~PreparedConflict(runs[t].resources.val, runs'[s].guard.val)]_vars

\* the guards of resource type T that are live, shared or exclusive ones,
\* each named by who holds it: the k-th guard of a thread, or the guard
\* inside a system's fetch
LiveGuards(T, exclusive) ==
    {g \in {"thread"} \X Holders \X (1..MaxResourceOps) :
        /\ g[3] <= Len(guards[g[2]])
        /\ guards[g[2]][g[3]] = ResourceGuard(T, exclusive)}
    \cup {g \in {"fetch"} \X Runners \X {1} :
            runs[g[2]].guard = Some(ResourceGuard(T, exclusive))}

\* C20: any number of read guards of a resource type may be live at once and
\* a write guard is live alone; get_mut::<T> panics exactly when a guard of T
\* is live and get::<T> exactly when a write guard of T is, so that once the
\* conflicting guards are dropped the acquisition succeeds.
C20_BorrowTracking ==
    [][/\ \A T \in ResourceTypes :
            /\ Cardinality(LiveGuards(T, TRUE)') <= 1
            /\ LiveGuards(T, TRUE)' # {} => LiveGuards(T, FALSE)' = {}
       /\ \A T \in ResourceTypes :
            (/\ res_ops' = res_ops + 1
             /\ res_last'.type = T
             /\ Resources_contains(resources, T))
            => /\ res_last'.op = "get" =>
                    /\ res_last'.ret = "panic" <=> LiveGuards(T, TRUE) # {}
                    /\ res_last'.ret = "guard" <=> LiveGuards(T, TRUE) = {}
               /\ res_last'.op = "get_mut" =>
                    /\ res_last'.ret = "panic" <=>
                          LiveGuards(T, TRUE) \cup LiveGuards(T, FALSE) # {}
                    /\ res_last'.ret = "guard" <=>
                          LiveGuards(T, TRUE) \cup LiveGuards(T, FALSE) = {}]_vars

\* get_mut::<T> has returned a guard after a guard of T was dropped, while
\* two read guards of another resource type are live
C20_Witness ==
    /\ res_last.op = "get_mut"
    /\ res_last.ret = "guard"
    /\ released[res_last.type]
    /\ \E U \in ResourceTypes \ {res_last.type} :
            Cardinality(LiveGuards(U, FALSE)) >= 2

\* the resources of the types other than T are as they were before the step
OthersUnaffected(T) == \A U \in ResourceTypes \ {T} : resources'[U] = resources[U]

\* C21: Resources is a map keyed by type. After insert(v) of type T a get of T
\* returns v, whatever was stored before; remove of T returns the stored
\* value (None when there is none) and afterwards get, get_mut and remove of
\* T return None and contains is false; a get returns the stored value; and
\* insert and remove leave the resources of the other types as they were.
C21_ResourcesIsMap ==
    [][\A T \in ResourceTypes :
          (res_ops' = res_ops + 1 /\ res_last'.type = T)
          => /\ res_last'.op = "insert" =>
                  /\ Resources_contains(resources', T)
                  /\ Resources_get(resources', T).ret.some
                  /\ Guard_deref(resources', Resources_get(resources', T).ret.val)
                        = res_last'.value.val
                  /\ OthersUnaffected(T)
             /\ res_last'.op = "remove" =>
                  /\ res_last'.value =
                        (IF Resources_contains(resources, T)
                         THEN Some(Guard_deref(resources, ResourceGuard(T, FALSE)))
                         ELSE None)
                  /\ ~Resources_contains(resources', T)
                  /\ Resources_get(resources', T).ret = None
                  /\ ~Resources_get(resources', T).panic
                  /\ Resources_get_mut(resources', T).ret = None
                  /\ ~Resources_get_mut(resources', T).panic
                  /\ Resources_remove(resources', T).ret = None
                  /\ OthersUnaffected(T)
             /\ (res_last'.op = "get" /\ res_last'.ret = "guard") =>
                  res_last'.value = Some(resources[T].val.value)]_vars

\* remove has returned a value that an insert had put in place of the one
\* stored before, and the resource of the other type is still stored
C21_Witness ==
    /\ res_last.op = "remove"
    /\ res_last.value = Some(2)
    /\ \E U \in ResourceTypes \ {res_last.type} : Resources_contains(resources, U)

\* the chunks that store entity e
ChunksOf(e) ==
    {world.archetypes[t[1]].chunks[t[2]] :
        t \in {t \in (1..Len(world.archetypes)) \X (1..MaxInserts * MaxItems) :
                 /\ t[2] <= Len(world.archetypes[t[1]].chunks)
                 /\ e \in Range(world.archetypes[t[1]].chunks[t[2]].entities)}}

\* the shared component of type S of a chunk, None when it has none
SharedOf(chunk, S) ==
    IF \E m \in 1..Len(chunk.shared) : chunk.shared[m].type = S
    THEN Some((CHOOSE x \in Range(chunk.shared) : x.type = S).value)
    ELSE None

\* C22: component, component_mut and shared return None for an entity that is
\* not stored in the world (never inserted, or deleted) and for a type its
\* archetype lacks; for a stored entity they return the entity's own value.
C22_LookupOfStoredOnly ==
    \A e \in Entity :
        /\ ChunksOf(e) = {} =>
              /\ \A T \in ComponentTypes :
                    /\ World_component(world, e, T) = None
                    /\ World_component_mut(world, e, T) = None
              /\ World_shared(world, e, "Model") = None
        /\ \A chunk \in ChunksOf(e) :
              /\ \A T \in ComponentTypes :
                    LET own == IF T \in DOMAIN chunk.data /\ e \in DOMAIN expected
                               THEN Some(ComponentOf(T, expected[e])) ELSE None
                    IN  /\ World_component(world, e, T) = own
                        /\ World_component_mut(world, e, T) = own
              /\ World_shared(world, e, "Model") = SharedOf(chunk, "Model")

\* block c is block b one call later: the same range, every stored version
\* kept or incremented once, every new slot at version 1
VersionStep(b, c) ==
    /\ c.start = b.start
    /\ Len(c.versions) >= Len(b.versions)
    /\ \A i \in 1..Len(c.versions) :
          IF i <= Len(b.versions)
          THEN c.versions[i] \in {b.versions[i], WrappingInc(b.versions[i])}
          ELSE c.versions[i] = 1

\* C23: version monotonicity.  Over every call that returns, each block of
\* each allocator keeps or increments by one (modulo the version space) the
\* version of each slot and starts new slots at 1; a block that joins an
\* allocator is the last free block of the BlockAllocator with its versions,
\* or a fresh one; and a dropped allocator's blocks reach the free list as
\* they are.
C23_VersionMonotonic ==
    [][~panicked' =>
        IF drops' = drops + 1
        THEN /\ block_allocator'.free =
                    block_allocator.free \o allocators[last'.a].blocks
             /\ \A x \in Allocators \ {last'.a} : allocators'[x] = allocators[x]
        ELSE /\ \A x \in Allocators :
                  LET old == allocators[x].blocks
                      new == allocators'[x].blocks
                  IN  /\ Len(new) \in {Len(old), Len(old) + 1}
                      /\ \A k \in 1..Len(old) : VersionStep(old[k], new[k])
                      /\ Len(new) = Len(old) + 1 =>
                            IF block_allocator.free # <<>>
                            THEN /\ VersionStep(Last(block_allocator.free), Last(new))
                                 /\ block_allocator'.free = Front(block_allocator.free)
                            ELSE Last(new).versions = <<1>>
             /\ (\A x \in Allocators :
                    Len(allocators'[x].blocks) = Len(allocators[x].blocks))
                => block_allocator'.free = block_allocator.free]_vars

\* after a drop every freed block has been leased again, and an allocator
\* holds a block with a slot that has gone through the whole version space:
\* its version has wrapped to 0
C23_Witness ==
    /\ drops > 0
    /\ ~panicked
    /\ block_allocator.free = <<>>
    /\ \E x \in Allocators : \E k \in 1..MaxBlocks :
          /\ k <= Len(allocators[x].blocks)
          /\ 0 \in Range(allocators[x].blocks[k].versions)

\* the blocks created so far, each named by where it is: the k-th block of
\* allocator x, or the k-th block of the free list (x = 0)
BlocksCreated ==
    {p \in (Allocators \cup {0}) \X (1..MaxBlocks) :
        p[2] <= Len(IF p[1] = 0 THEN block_allocator.free ELSE allocators[p[1]].blocks)}

BlockAt(p) ==
    IF p[1] = 0 THEN block_allocator.free[p[2]] ELSE allocators[p[1]].blocks[p[2]]

\* the index range [start, start + BLOCK_SIZE) of a block
BlockRange(b) == b.start .. (b.start + b.len - 1)

\* C24: the index ranges of the blocks the BlockAllocator created are pairwise
\* disjoint, however many blocks it created.
C24_UniqueIndexRanges ==
    \A p, q \in BlocksCreated :
        p # q => BlockRange(BlockAt(p)) \cap BlockRange(BlockAt(q)) = {}

\* a system that declares no write, of a resource or of a component
ReadOnly(system) ==
    system.resources.writes = <<>> /\ system.components.writes = <<>>

\* the stage is two read-only systems whose queries name disjoint component types
ReadOnlyDisjointPair ==
    /\ NSys = 2
    /\ ReadOnly(systems[1]) /\ ReadOnly(systems[2])
    /\ Range(systems[1].components.reads) \cap Range(systems[2].components.reads) = {}

\* C25: scheduler parallelism.  In a stage of two read-only systems that query
\* disjoint component types no dependency edge exists between the two, so
\* that neither waits for the other and both may be started before either
\* has finished.
C25_ReadOnlyPairParallel ==
    ReadOnlyDisjointPair =>
        \A i \in Sys :
            /\ static_dependants[i] = <<>>
            /\ static_dependancy_counts[i] = 0
            /\ dispatching => awaiting[i] = 0

\* the stage is two read-only systems that read a component both, and no
\* resource both
ReadersOfOneComponent ==
    /\ NSys = 2
    /\ ReadOnly(systems[1]) /\ ReadOnly(systems[2])
    /\ CompReads(1) \cap CompReads(2) # {}
    /\ ResReads(1) \cap ResReads(2) = {}

\* C26: readers coexist.  Two systems that only read the same component get
\* no dependency edge, static or promoted, also when their archetype sets
\* intersect: neither is listed as a dependant of the other and neither
\* counts a dependancy.
C26_ReadersCoexist ==
    ReadersOfOneComponent =>
        \A i \in Sys :
            /\ static_dependants[i] = <<>>
            /\ static_dependancy_counts[i] = 0

\* C27: writes() of a built system returns the resource types and component
\* types it declared as written and reads() those it declared as read, so that
\* the two results differ whenever the declared reads and writes differ.
C27_WritesReturnsWrites ==
    \A i \in Sys :
        /\ reads(systems[i]) = [res  |-> systems[i].resources.reads,
                                comp |-> systems[i].components.reads]
        /\ writes(systems[i]) = writes_declared(systems[i])
        /\ writes_declared(systems[i]) # reads(systems[i]) =>
                writes(systems[i]) # reads(systems[i])

\* C28: command buffers flush at stage end.  When execute has returned, the
\* commands every system recorded in its command buffer during the stage have
\* been applied to the world: no buffer holds a command any more.
C28_FlushAtStageEnd ==
    Returned => \A i \in Sys : command_buffer[i] = <<>>

\* C29: scheduler panic policy.  Once a run has panicked during an execute, no
\* run is started any more in that execute: the runs in progress may return,
\* but neither a dependant nor a system still pending in the ready-scan is
\* dispatched.
C29_NoDispatchAfterPanic ==
    [][(dispatching /\ panics > 0) =>
            \A i \in Sys : started'[i] = started[i]]_vars

\* C30: within one call of execute no system's run is invoked more than once,
\* however the items of the ready-scan interleave with the decrements of
\* awaiting made when other systems finish.
C30_RunAtMostOnce ==
    \A i \in Sys : started[i] <= 1

\* C31: stage completion.  When execute has returned, every system of the
\* stage has been run, and every dependency edge goes from a system to one
\* declared after it, so that no system is left waiting.
C31_StageCompletes ==
    /\ Returned => \A i \in Sys : finished[i] >= 1
    /\ NSys > 1 => \A i \in Sys : \A j \in Range(static_dependants[i]) : i < j

\* the systems i whose provisional edge to j is promoted by the execute that
\* leaves the archetype sets arch
Promoted(j, arch) ==
    {i \in Sys : j \in Range(dynamic_dependants[i]) /\ arch[i] \cap arch[j] # {}}

\* C32: in an execute of a stage of several systems a provisional component edge
\* i -> j becomes real exactly when the archetype sets of i and j intersect after
\* prepare: j is then moved from dynamic_dependants[i] to static_dependants[i]
\* once and its dependency count grows by one per promoted edge; when the sets
\* are disjoint the edge stays provisional, and nothing else changes the lists
\* or the counts.
C32_PromotionExact ==
    [][(executions' = executions + 1 /\ NSys > 1) =>
        /\ \A i \in Sys : \A j \in Sys :
            LET prov == Occurrences(dynamic_dependants[i], j)
                meet == archetypes'[i] \cap archetypes'[j] # {}
            IN  /\ prov <= 1
                /\ Occurrences(static_dependants'[i], j)
                     = Occurrences(static_dependants[i], j) + (IF meet THEN prov ELSE 0)
                /\ Occurrences(dynamic_dependants'[i], j) = (IF meet THEN 0 ELSE prov)
        /\ \A j \in Sys :
            /\ static_dependancy_counts'[j]
                 = static_dependancy_counts[j] + Cardinality(Promoted(j, archetypes'))
            /\ awaiting'[j] = static_dependancy_counts'[j]]_vars

\* a second execute has promoted an edge that the first one left provisional:
\* the two systems meet only in the archetype created between the two calls
C32_Witness ==
    /\ executions = 2
    /\ dispatching
    /\ \E i \in Sys : \E j \in Sys \ {i} :
        /\ j \in Range(StageExecutorNew(systems).dynamic_dependants[i])
        /\ j \in Range(static_dependants[i])
        /\ j \notin Range(dynamic_dependants[i])
        /\ archetypes[i] \cap archetypes[j] = {2}
        /\ query_matches[i] \cap query_matches[j] = {2}

\* how many times j is listed over the static_dependants lists of systems 1..k
RECURSIVE StaticEdgesInto(_, _)
StaticEdgesInto(j, k) ==
    IF k = 0 THEN 0
    ELSE Occurrences(static_dependants[k], j) + StaticEdgesInto(j, k - 1)

\* dispatch begins: execute has initialised awaiting and no item of the
\* ready-scan has been taken yet
DispatchBegins == dispatching /\ NSys > 1 /\ scanned = {}

\* C33: in every execute of a stage of several systems, when dispatch begins
\* awaiting[j] is the number of times j is listed over all static_dependants
\* lists, and no awaiting counter is ever taken below zero.
C33_AwaitingCountsEdges ==
    NSys > 1 =>
        /\ DispatchBegins =>
             \A j \in Sys : awaiting[j] = StaticEdgesInto(j, NSys)
        /\ \A j \in Sys : awaiting[j] >= 0

\* system i only reads resource R and the later system j declares a write of R
WriteAfterRead(i, j, R) ==
    /\ i < j
    /\ R \in ResReads(i) /\ R \notin ResWrites(i)
    /\ R \in ResWrites(j)

\* C34: write-after-read on a resource is ordered.  When system i only reads
\* resource R and a later system j of the stage writes R, no run of j has started
\* in an execute before a run of i has returned in it, so the two are never
\* inside run together.
C34_WriteAfterReadOrdered ==
    \A i \in Sys : \A j \in Sys : \A R \in ResReads(i) :
        WriteAfterRead(i, j, R) =>
            /\ started[j] > 0 => finished[i] > 0
            /\ ~(running[i] > 0 /\ running[j] > 0)

\* the entities of allocator x that create_entity has returned and that no
\* delete_entity has been called on since
AliveOf(x) == issued[x] \ deleted[x]

\* no index is listed twice in the free-list of a block of allocator x
FreeListsDistinct(x) ==
    \A k \in 1..Len(allocators[x].blocks) :
        LET free == allocators[x].blocks[k].free
        IN  \A m \in 1..Len(free) : \A n \in 1..Len(free) :
                free[m] = free[n] => m = n

\* C35: within one EntityAllocator, after any sequence of create_entity and
\* delete_entity calls (repeated deletes of one handle included), create_entity
\* never returns an Entity equal in index and version to one that is alive at
\* the call, and the free-list of each block holds every index at most once.
C35_CreateReturnsFresh ==
    [][/\ (last'.op = "create" /\ last'.ret) => last'.entity \notin AliveOf(last'.a)
       /\ \A x \in Allocators : FreeListsDistinct(x)']_vars

\* the slots (archetype, chunk, slot), 1-based, whose entity column holds e
SlotsOf(e) ==
    {t \in (1..Len(world.archetypes)) \X (1..MaxInserts * MaxItems) \X (1..ChunkCapacity) :
        /\ t[2] <= Len(world.archetypes[t[1]].chunks)
        /\ t[3] <= Len(world.archetypes[t[1]].chunks[t[2]].entities)
        /\ world.archetypes[t[1]].chunks[t[2]].entities[t[3]] = e}

\* C36: after any sequence of World::insert and World::delete calls the
\* entities stored in the entity columns of the chunks are exactly those that
\* World::is_alive reports alive, each is stored in exactly one slot, and the
\* entity index has an entry only for an entity that is alive.
C36_StoredIsAlive ==
    ~panicked =>
        /\ \A e \in Entity :
              /\ World_is_alive(allocators[WorldAllocator], e) <=> SlotsOf(e) # {}
              /\ Cardinality(SlotsOf(e)) <= 1
        /\ \A e \in DOMAIN world.entities :
              World_is_alive(allocators[WorldAllocator], e)

\* block b has nothing to give: its free-list is empty and all its slots are
\* initialised
Exhausted(b) == b.free = <<>> /\ Len(b.versions) >= b.len

\* the owned blocks of allocator x that have something to give
Giving(x) ==
    {k \in 1..Len(allocators[x].blocks) : ~Exhausted(allocators[x].blocks[k])}

\* a step that is a call of create_entity
CreateStep ==
    /\ last'.op = "create"
    /\ deletes' = deletes /\ drops' = drops
    /\ allocators' # allocators \/ block_allocator' # block_allocator

\* C37: allocation policy.  create_entity takes from the most recently leased
\* of the owned blocks that has a free-list entry or an unused tail slot: the
\* entry popped from the free-list, with the version stored for it, or otherwise
\* the next tail slot with version 1; no other block changes and no block is
\* leased.  A block is leased from the BlockAllocator only when every owned
\* block has an empty free-list and all its slots initialised.
C37_AllocationPolicy ==
    [][CreateStep =>
        LET x      == last'.a
            blocks == allocators[x].blocks
            after  == allocators'[x].blocks
            e      == last'.entity
        IN  IF Giving(x) # {}
            THEN LET k == CHOOSE k \in Giving(x) : \A m \in Giving(x) : m <= k
                     b == blocks[k]
                 IN  /\ last'.ret
                     /\ block_allocator' = block_allocator
                     /\ Len(after) = Len(blocks)
                     /\ \A m \in 1..Len(blocks) : m # k => after[m] = blocks[m]
                     /\ IF b.free # <<>>
                        THEN /\ e.index = Last(b.free)
                             /\ e.version = b.versions[e.index - b.start + 1]
                             /\ after[k].free = Front(b.free)
                             /\ after[k].versions = b.versions
                        ELSE /\ e.index = b.start + Len(b.versions)
                             /\ e.version = 1
                             /\ after[k].versions = Append(b.versions, 1)
                             /\ after[k].free = <<>>
            ELSE /\ block_allocator' # block_allocator
                 /\ last'.ret =>
                       /\ Len(after) = Len(blocks) + 1
                       /\ SubSeq(after, 1, Len(blocks)) = blocks]_vars

\* a create that passed over the newest block, which had nothing to give, and
\* popped the free-list of the older one
C37_Witness ==
    /\ last.op = "create" /\ last.ret
    /\ Len(allocators[last.a].blocks) = 2
    /\ Exhausted(allocators[last.a].blocks[2])
    /\ last.entity.index - allocators[last.a].blocks[1].start \in 0..(BLOCK_SIZE - 1)
    /\ last.entity.version # 1
    /\ allocators[last.a].blocks[1].free = <<>>
    /\ Len(allocators[last.a].blocks[1].versions) = BLOCK_SIZE

\* a step that is the drop of an EntityAllocator
DropStep == drops' = drops + 1

\* a create_entity step that leases a block from the BlockAllocator
LeaseStep == CreateStep /\ block_allocator' # block_allocator

\* C38: block recycling.  Dropping an EntityAllocator appends every block it
\* owns to the free list of the shared BlockAllocator and creates none; a lease,
\* by any allocator, takes the most recently returned block whenever the free
\* list is not empty and creates a fresh block only when it is empty; the count
\* of slots in fresh blocks grows in no other step.
C38_BlockRecycling ==
    [][/\ DropStep =>
            /\ block_allocator'.free
                 = block_allocator.free \o allocators[last'.a].blocks
            /\ block_allocator'.allocated = block_allocator.allocated
            /\ allocators'[last'.a].blocks = <<>>
       /\ LeaseStep =>
            LET after == allocators'[last'.a].blocks
            IN  IF block_allocator.free # <<>>
                THEN /\ block_allocator'.free = Front(block_allocator.free)
                     /\ block_allocator'.allocated = block_allocator.allocated
                     /\ last'.ret =>
                          Last(after) = EntityBlock_allocate(Last(block_allocator.free)).block
                ELSE /\ block_allocator'.free = <<>>
                     /\ block_allocator'.allocated = block_allocator.allocated + BLOCK_SIZE
                     /\ last'.ret =>
                          /\ Last(after).start = AsEntityIndex(block_allocator.allocated)
                          /\ Last(after).versions = <<1>>
                          /\ Last(after).free = <<>>
       /\ block_allocator'.allocated # block_allocator.allocated =>
            LeaseStep /\ block_allocator.free = <<>>]_vars

\* a lease has taken the later of two blocks returned by a drop, leaving the
\* earlier one on the free list: the leased block has a slot that was
\* initialised by the dropped allocator
C38_Witness ==
    /\ last.op = "create" /\ last.ret
    /\ drops = 1
    /\ Len(block_allocator.free) = 1
    /\ block_allocator.free[1].start = 0
    /\ block_allocator.allocated = 2 * BLOCK_SIZE
    /\ allocators[last.a].blocks # <<>>
    /\ LET b == Last(allocators[last.a].blocks)
       IN  /\ b.start = BLOCK_SIZE
           /\ \E n \in 1..Len(b.versions) :
                 \A e \in issued[last.a] : e.index # b.start + n - 1

\* the length of the entity column of chunk c of archetype a of world w (1-based
\* positions), 0 for a chunk that does not exist
ColumnLen(w, a, c) ==
    IF a <= Len(w.archetypes)
    THEN IF c <= Len(w.archetypes[a].chunks)
         THEN Len(w.archetypes[a].chunks[c].entities)
         ELSE 0
    ELSE 0

\* the slots (archetype, chunk, slot), 1-based, that are filled in world v and
\* were not in world w
NewSlots(w, v) ==
    {t \in (1..Len(v.archetypes)) \X (1..MaxInserts * MaxItems) \X (1..ChunkCapacity) :
        /\ t[3] <= ColumnLen(v, t[1], t[2])
        /\ t[3] > ColumnLen(w, t[1], t[2])}

\* what a call insert(shared, items) that took world w to world v has done: it
\* returned, the slice it returned has one entity per item, the items went
\* into as many new slots of chunks that carry the shared values, no chunk
\* holds more than its capacity, and of the chunks that received items only
\* the one holding the last item may have room left
Inserted(w, v, shared, items, ret) ==
    /\ Len(ret) = Len(items)
    /\ Cardinality(NewSlots(w, v)) = Len(items)
    /\ \A t \in NewSlots(w, v) :
          LET chunk == v.archetypes[t[1]].chunks[t[2]]
          IN  /\ chunk.shared = shared
              /\ Len(chunk.entities) <= chunk.capacity
              /\ chunk.entities[t[3]] \in Range(ret)
              /\ Chunk_is_full(chunk) \/ chunk.entities[Len(chunk.entities)] = Last(ret)
    /\ \A a \in 1..Len(w.archetypes) : \A c \in 1..Len(w.archetypes[a].chunks) :
          SubSeq(v.archetypes[a].chunks[c].entities, 1, ColumnLen(w, a, c))
             = w.archetypes[a].chunks[c].entities

\* C39: World::insert terminates for every finite source of N items and creates
\* exactly N entities that share the given shared values: N distinct entities,
\* none of them stored before the call, are returned and appended, each pass
\* filling a chunk that matches the shared values and spilling into the next.
C39_InsertCreatesN ==
    [][\A shared \in SharedTuples : \A types \in ComponentTuples : \A items \in ItemLists :
          Insert(shared, types, items) =>
              /\ ~panicked'
              /\ Inserted(world, world', shared, items,
                          allocators'[WorldAllocator].entity_buffer)
              /\ Cardinality(Range(allocators'[WorldAllocator].entity_buffer)
                               \ StoredEntities) = Len(items)]_vars


\* the chunks a query yields, as a set
ChunksYielded(q) == Range(Query_into_chunks(world, q))

\* C40: shared-value chunk filters.  A query narrowed by
\* without_shared_data_value::<T>(v) yields, of the chunks the query yields,
\* every chunk whose shared T differs from v and every chunk that has no
\* shared T, and no other; narrowed by with_shared_data_value::<T>(v) it yields
\* exactly the chunks that have a shared T equal to v.
C40_SharedValueFilters ==
    \A view \in Views : \A v \in ComponentValues :
        LET q == Query_new(view)
        IN  /\ ChunksYielded(Query_without_shared_data_value(q, "Model", v))
                 = {c \in ChunksYielded(q) :
                       \/ SharedOf(c, "Model") = None
                       \/ SharedOf(c, "Model").some /\ SharedOf(c, "Model").val # v}
            /\ ChunksYielded(Query_with_shared_data_value(q, "Model", v))
                 = {c \in ChunksYielded(q) :
                       SharedOf(c, "Model").some /\ SharedOf(c, "Model").val = v}

\* the world holds a chunk without a shared Model and a chunk with Model 2:
\* without_shared_data_value(1) yields both, without_shared_data_value(2) only
\* the first, with_shared_data_value(2) only the second
C40_Witness ==
    LET q == Query_new(<<Read("Pos")>>)
    IN  \E c \in ChunksYielded(q) : \E d \in ChunksYielded(q) :
            /\ c.entities # <<>> /\ d.entities # <<>>
            /\ SharedOf(c, "Model") = None
            /\ SharedOf(d, "Model") = Some(2)
            /\ ChunksYielded(Query_without_shared_data_value(q, "Model", 1)) = {c, d}
            /\ ChunksYielded(Query_without_shared_data_value(q, "Model", 2)) = {c}
            /\ ChunksYielded(Query_with_shared_data_value(q, "Model", 2)) = {d}
=============================================================================
